---- MODULE Spec2Model ----
(***************************************************************************)
(* A model of the ledger-consistency engine: the product catalog           *)
(* (inventoryService.ts), the transaction ledger and the bills             *)
(* (src/unnamed/part_000, the module debtService.ts imports as             *)
(* dataService), the debts (debtService.ts) and the sale workflow          *)
(* (NewSaleForm.tsx).                                                      *)
(*                                                                         *)
(* localStorage is modelled by one variable per storage key.  A string is  *)
(* a sequence of tokens; the token " " is white space, so that trim() is   *)
(* computed and not assumed.  Dates are integers on one clock, `now`.      *)
(* An async function runs synchronously up to its first await; what        *)
(* follows the await is a microtask, kept in `tasks` until it is resumed.  *)
(* window.dispatchEvent runs the listening handlers before it returns, so  *)
(* the events and the callbacks of a call are part of the call's record.   *)
(* Within one view an operation without an await is one step.  Independent *)
(* views (tabs) share localStorage and nothing else: there an operation is *)
(* two steps, its read of the store and its write.                         *)
(***************************************************************************)
EXTENDS Integers, Sequences, FiniteSets, TLC

VARIABLES
    products,      \* localStorage["inventory_products"]
    transactions,  \* localStorage["cashier_transactions"]
    debts,         \* localStorage["debts"]
    bills,         \* localStorage["app_bills"]
    now,           \* the clock read by new Date() / Date.now()
    nextId,        \* the next identifier generateId() hands out
    tasks,         \* continuations waiting behind an await, in FIFO order
    lastCall,      \* the last operation called: its arguments, outcome and result
    form,          \* the state of the NewSaleForm component
    standalone,    \* history: the standalone quantity last passed in for each product
    subscriptions, \* the handlers subscribe...() has made, listening on window or removed
    views          \* for each independent view, the array its running operation has read

vars == <<products, transactions, debts, bills, now, nextId, tasks, lastCall,
          form, standalone, subscriptions, views>>

----------------------------------------------------------------------------
(* Bounds of the model *)

\* The clock runs from 1 to MaxTime.
MaxTime == 2
\* The debt collection holds at most MaxDebts records.
MaxDebts == 2
\* The product collection holds at most MaxProducts records.
MaxProducts == 2
\* The bill collection holds at most MaxBills records.
MaxBills == 2
\* generateId() is called at most MaxId times: a bound on the records ever created.
MaxId == 3
\* At most MaxSubscriptions handlers are made.
MaxSubscriptions == 2
\* At most MaxTasks calls of markAsPaid wait behind their await.
MaxTasks == 2

----------------------------------------------------------------------------
(* Strings *)

SP == " "

\* An optional field that is absent (JavaScript's undefined).
Undefined == <<"<undefined>">>

NoId == 0
NoDate == -1

\* A date before the present one and a date after it.
Yesterday == now - 1
Tomorrow == now + 1

RECURSIVE TrimStart(_)
TrimStart(s) ==
    IF s # <<>> /\ Head(s) = SP THEN TrimStart(Tail(s)) ELSE s

RECURSIVE TrimEnd(_)
TrimEnd(s) ==
    IF s # <<>> /\ s[Len(s)] = SP THEN TrimEnd(SubSeq(s, 1, Len(s) - 1)) ELSE s

\* String.prototype.trim
Trim(s) == TrimEnd(TrimStart(s))

\* JavaScript truthiness of an optional string: undefined and "" are falsy.
Truthy(s) == s # Undefined /\ s # <<>>

\* x?.trim() || undefined
TrimOrUndefined(s) ==
    IF s # Undefined /\ Trim(s) # <<>> THEN Trim(s) ELSE Undefined

\* x?.trim() || fallback
TrimOr(s, fallback) ==
    IF s # Undefined /\ Trim(s) # <<>> THEN Trim(s) ELSE fallback

LowerToken(c) ==
    CASE c = "Acme" -> "acme"
      [] c = "Bob" -> "bob"
      [] c \in {"Ropa", "ROPA"} -> "ropa"
      [] c = "BIG" -> "big"
      [] c \in {"Mug", "MUG"} -> "mug"
      [] OTHER -> c

\* String.prototype.toLowerCase
ToLowerCase(s) == [i \in 1..Len(s) |-> LowerToken(s[i])]

\* String.prototype.includes
Includes(s, term) ==
    \E i \in 0..(Len(s) - Len(term)) : SubSeq(s, i + 1, i + Len(term)) = term

\* x?.toLowerCase().includes(term) on an optional string
OptIncludes(s, term) == s # Undefined /\ Includes(ToLowerCase(s), term)

----------------------------------------------------------------------------
(* Sequences *)

\* Array.prototype.findIndex, 1-based; 0 when nothing matches (-1 in the code).
FindIndex(seq, Test(_)) ==
    IF \E i \in 1..Len(seq) : Test(seq[i])
    THEN CHOOSE i \in 1..Len(seq) : Test(seq[i]) /\ \A j \in 1..(i - 1) : ~Test(seq[j])
    ELSE 0

\* Array.prototype.filter
Filter(seq, Test(_)) ==
    LET kept == {i \in 1..Len(seq) : Test(seq[i])}
        at(k) == CHOOSE i \in kept : Cardinality({j \in kept : j <= i}) = k
    IN  [k \in 1..Cardinality(kept) |-> seq[at(k)]]

\* Array.prototype.sort with a comparator: stable, Before(a, b) when the
\* comparator puts a strictly before b.
SortBy(seq, Before(_, _)) ==
    LET rank(i) == 1 + Cardinality({j \in 1..Len(seq) :
                        \/ Before(seq[j], seq[i])
                        \/ ~Before(seq[i], seq[j]) /\ j < i})
    IN  [k \in 1..Len(seq) |-> seq[CHOOSE i \in 1..Len(seq) : rank(i) = k]]

Last(seq) == seq[Len(seq)]

\* Whether a record of seq has the identifier id, and that record.
HasId(seq, id) == \E i \in 1..Len(seq) : seq[i].id = id

ById(seq, id) == seq[FindIndex(seq, LAMBDA r : r.id = id)]

IsPrefix(s, t) == Len(s) <= Len(t) /\ SubSeq(t, 1, Len(s)) = s

Has(u, f) == f \in DOMAIN u

\* {...base, ...updates}
Spread(base, updates) ==
    [f \in DOMAIN base \cup DOMAIN updates |->
        IF f \in DOMAIN updates THEN updates[f] ELSE base[f]]

EmptyRecord == [f \in {} |-> 0]

----------------------------------------------------------------------------
(* The record of the last call *)

NoFilter == ""

NoFilters == [type |-> NoFilter, status |-> NoFilter, searchTerm |-> <<>>]

\* JSON.stringify(value): the string that holds the value.
Stringify(value) == [json |-> value]

\* new StorageEvent('storage', {key, newValue})
StorageEvent(key, newValue) == [key |-> key, newValue |-> newValue]

NoEvents == <<>>

\* A call with further arguments.
CallWith(op, id, args, outcome) ==
    [op |-> op, id |-> id, args |-> args, outcome |-> outcome, result |-> <<>>,
     events |-> NoEvents, callbacks |-> <<>>]

\* A call that takes an identifier and returns no list.
Call(op, id, outcome) == CallWith(op, id, <<>>, outcome)

\* A call that takes filters and returns a list.
Query(op, filters, result) ==
    [op |-> op, id |-> 0, args |-> filters, outcome |-> "ok", result |-> result,
     events |-> NoEvents, callbacks |-> <<>>]

----------------------------------------------------------------------------
(* The debt list *)

\* new Date(dueDate) < new Date()
IsPast(dueDate, at) == dueDate < at

\* getAllDebts without the derivation of overdue.
GetAllDebtsResult_NoDerive(stored, at, filters) ==
    SortBy(stored, LAMBDA a, b : b.createdAt < a.createdAt)

\* The list getAllDebts(filters) returns at time `at` for the stored array `stored`.
GetAllDebtsResult(stored, at, filters) ==
    LET derived == [i \in 1..Len(stored) |->
                       IF stored[i].status = "pending" /\ IsPast(stored[i].dueDate, at)
                       THEN [stored[i] EXCEPT !.status = "overdue"]
                       ELSE stored[i]]
        byType == IF filters.type # NoFilter
                  THEN Filter(derived, LAMBDA d : d.type = filters.type)
                  ELSE derived
        byStatus == IF filters.status # NoFilter
                    THEN Filter(byType, LAMBDA d : d.status = filters.status)
                    ELSE byType
        term == ToLowerCase(filters.searchTerm)
        bySearch == IF Truthy(filters.searchTerm)
                    THEN Filter(byStatus, LAMBDA d :
                            \/ Includes(ToLowerCase(d.counterparty), term)
                            \/ Includes(ToLowerCase(d.description), term)
                            \/ OptIncludes(d.category, term))
                    ELSE byStatus
    IN  SortBy(bySearch, LAMBDA a, b : b.createdAt < a.createdAt)

----------------------------------------------------------------------------
(* Change events and subscribers *)

\* JSON.parse(string)
Parse(string) == string.json

\* What a manager's handler passes to its callback when the array `stored` is
\* under the manager's key: getProducts(), getAllDebts() or getBills().
Fetched(key, stored) ==
    IF key = "debts" THEN GetAllDebtsResult(stored, now, NoFilters) ELSE stored

\* A handler that calls back for every event.
Handler_AnyKey(i, subscription, e) ==
    <<[subscription |-> i, value |-> Fetched(e.key, Parse(e.newValue))]>>

\* The handler of subscription i receives event e: if (e.key === STORAGE_KEY)
\* callback(...).  The array it reads is the one the event's dispatcher has
\* just stored, whose string the event carries.
Handler(i, subscription, e) ==
    IF e.key = subscription.key
    THEN <<[subscription |-> i, value |-> Fetched(subscription.key, Parse(e.newValue))]>>
    ELSE <<>>

RECURSIVE RunHandlers(_, _, _)
\* window.dispatchEvent(e): the listening handlers from the i-th on run in the
\* order they were added.
RunHandlers(e, handlers, i) ==
    IF i > Len(handlers) THEN <<>>
    ELSE (IF handlers[i].listening THEN Handler(i, handlers[i], e) ELSE <<>>)
         \o RunHandlers(e, handlers, i + 1)

RECURSIVE Deliver(_, _)
\* The callbacks made while the events are dispatched one after the other.
Deliver(events, handlers) ==
    IF events = <<>> THEN <<>>
    ELSE RunHandlers(Head(events), handlers, 1) \o Deliver(Tail(events), handlers)

\* A call during which window.dispatchEvent was called with these events, in order.
Dispatching(call, events) ==
    [call EXCEPT !.events = events, !.callbacks = Deliver(events, subscriptions)]

\* subscribe...(callback): the callback is called with the list, the handler
\* is added to the window's listeners, the action that removes it is returned.
Subscribed(op, key, stored) ==
    /\ Len(subscriptions) < MaxSubscriptions
    /\ subscriptions' = Append(subscriptions, [key |-> key, listening |-> TRUE])
    /\ lastCall' = [Call(op, Len(subscriptions) + 1, "ok") EXCEPT
                       !.callbacks = <<[subscription |-> Len(subscriptions) + 1,
                                        value |-> Fetched(key, stored)]>>]
    /\ UNCHANGED <<products, transactions, debts, bills, now, nextId, tasks, form,
                   standalone, views>>

SubscribeToInventory == Subscribed("subscribeToInventory", "inventory_products", products)

SubscribeToDebts == Subscribed("subscribeToDebts", "debts", debts)

SubscribeToBills == Subscribed("subscribeToBills", "app_bills", bills)

\* The action subscription i returned is called: window.removeEventListener
\* removes the handler, or does nothing when the handler is not listening.
Unsubscribe(i) ==
    /\ subscriptions' = [subscriptions EXCEPT ![i].listening = FALSE]
    /\ lastCall' = Call("unsubscribe", i, "ok")
    /\ UNCHANGED <<products, transactions, debts, bills, now, nextId, tasks, form,
                   standalone, views>>

----------------------------------------------------------------------------
(* The transaction ledger *)

\* A transaction without line items (items undefined).
NoItems == <<>>

\* The record addTransaction builds.
NewTransaction(type, description, amount, category, paymentMethod, items) ==
    [id |-> nextId, type |-> type, description |-> description, amount |-> amount,
     timestamp |-> now, category |-> category, paymentMethod |-> paymentMethod,
     items |-> items]

\* addTransaction saving the new record alone, without the ledger it read.
AddTransactionWrites_NoRead(type, description, amount, category, paymentMethod, items, storageOk) ==
    /\ transactions' = <<NewTransaction(type, description, amount, category,
                                        paymentMethod, items)>>
    /\ nextId' = nextId + 1

\* addTransaction: reads the ledger, pushes the new record and saves the whole
\* array.  localStorage.setItem is the one statement of it that can throw (the
\* quota is exceeded): with storageOk false nothing is stored and the
\* exception reaches the caller.
AddTransactionWrites(type, description, amount, category, paymentMethod, items, storageOk) ==
    IF storageOk
    THEN /\ transactions' = Append(transactions,
                NewTransaction(type, description, amount, category, paymentMethod, items))
         /\ nextId' = nextId + 1
    ELSE /\ transactions' = transactions
         /\ nextId' = nextId + 1

\* The event addTransaction dispatches once the ledger `written` is saved.
AddTransactionEvents(written) ==
    <<StorageEvent("cashier_transactions", Stringify(written))>>

\* A caller adds a cash-flow entry to the ledger.
AddTransaction(type, description, amount, category, paymentMethod, storageOk) ==
    /\ nextId <= MaxId
    /\ AddTransactionWrites(type, description, amount, category, paymentMethod,
                            NoItems, storageOk)
    /\ lastCall' = IF storageOk
                   THEN Dispatching(Call("addTransaction", nextId, "ok"),
                                    AddTransactionEvents(transactions'))
                   ELSE Call("addTransaction", nextId, "StorageError")
    /\ UNCHANGED <<products, debts, bills, now, tasks, form, standalone,
                   subscriptions, views>>

----------------------------------------------------------------------------
(* The debts *)

\* saveDebts without its event.
SaveDebtsEvents_Silent(written) == NoEvents

\* The event saveDebts dispatches once the array `written` is stored.
SaveDebtsEvents(written) == <<StorageEvent("debts", Stringify(written))>>

\* createDebt storing every new debt as pending.
NewDebt_AlwaysPending(type, counterparty, amount, description, dueDate, category, notes) ==
    [id |-> nextId, type |-> type, counterparty |-> Trim(counterparty),
     amount |-> amount, description |-> Trim(description), dueDate |-> dueDate,
     status |-> "pending",
     createdAt |-> now, category |-> TrimOrUndefined(category),
     notes |-> TrimOrUndefined(notes),
     paidAt |-> NoDate, linkedTransactionId |-> NoId]

\* The record createDebt builds.
NewDebt(type, counterparty, amount, description, dueDate, category, notes) ==
    [id |-> nextId, type |-> type, counterparty |-> Trim(counterparty),
     amount |-> amount, description |-> Trim(description), dueDate |-> dueDate,
     status |-> IF IsPast(dueDate, now) THEN "overdue" ELSE "pending",
     createdAt |-> now, category |-> TrimOrUndefined(category),
     notes |-> TrimOrUndefined(notes),
     paidAt |-> NoDate, linkedTransactionId |-> NoId]

CreateDebt(type, counterparty, amount, description, dueDate, category, notes) ==
    /\ Len(debts) < MaxDebts
    /\ nextId <= MaxId
    /\ debts' = Append(debts,
            NewDebt(type, counterparty, amount, description, dueDate, category, notes))
    /\ nextId' = nextId + 1
    /\ lastCall' = Dispatching(Call("createDebt", nextId, "ok"), SaveDebtsEvents(debts'))
    /\ UNCHANGED <<products, transactions, bills, now, tasks, form, standalone,
                   subscriptions, views>>

\* The value of an optional field of an updates object.
Opt(updates, f) == IF Has(updates, f) THEN updates[f] ELSE Undefined

\* The record updateDebt stores for `debt`.
UpdatedDebt(debt, updates) ==
    LET merged == [Spread(debt, updates) EXCEPT
                     !.counterparty = TrimOr(Opt(updates, "counterparty"), debt.counterparty),
                     !.description = TrimOr(Opt(updates, "description"), debt.description),
                     !.category = TrimOrUndefined(Opt(updates, "category")),
                     !.notes = TrimOrUndefined(Opt(updates, "notes"))]
    IN  IF Has(updates, "dueDate") /\ merged.status = "pending"
        THEN [merged EXCEPT !.status =
                 IF IsPast(updates.dueDate, now) THEN "overdue" ELSE "pending"]
        ELSE merged

UpdateDebt(debtId, updates) ==
    LET debtIndex == FindIndex(debts, LAMBDA d : d.id = debtId)
    IN  /\ IF debtIndex = 0
           THEN /\ lastCall' = Call("updateDebt", debtId, "NotFound")
                /\ debts' = debts
           ELSE /\ debts' = [debts EXCEPT ![debtIndex] = UpdatedDebt(debts[debtIndex], updates)]
                /\ lastCall' = Dispatching(Call("updateDebt", debtId, "ok"),
                                           SaveDebtsEvents(debts'))
        /\ UNCHANGED <<products, transactions, bills, now, nextId, tasks,
                       form, standalone, subscriptions, views>>

DeleteDebt(debtId) ==
    /\ debts' = Filter(debts, LAMBDA d : d.id # debtId)
    /\ lastCall' = Dispatching(Call("deleteDebt", debtId, "ok"), SaveDebtsEvents(debts'))
    /\ UNCHANGED <<products, transactions, bills, now, nextId, tasks,
                   form, standalone, subscriptions, views>>

\* The settlement transaction's description.
SettlementDescription(debt) ==
    (IF debt.type = "receivable" THEN <<"Cobro: ">> ELSE <<"Pago: ">>)
        \o debt.counterparty \o <<" - ">> \o debt.description

\* The continuation of markAsPaid behind `await dataService.addTransaction(...)`:
\* it holds the array read at the start of the call, the index of the debt in
\* it and the transaction created.
MarkAsPaidTask(debtId, debtIndex) ==
    [op |-> "markAsPaid", id |-> debtId, debts |-> debts, debtIndex |-> debtIndex,
     transactionId |-> nextId]

\* markAsPaid with the two writes in the other order: the debt first.
MarkAsPaid_DebtFirst(debtId, storageOk) ==
    LET debtIndex == FindIndex(debts, LAMBDA d : d.id = debtId)
        debt == debts[debtIndex]
    IN  /\ debtIndex # 0
        /\ debt.status # "paid"
        /\ nextId <= MaxId
        /\ debts' = [debts EXCEPT ![debtIndex] =
                        [debt EXCEPT !.status = "paid", !.paidAt = now,
                                     !.linkedTransactionId = nextId]]
        /\ AddTransactionWrites(
               IF debt.type = "receivable" THEN "inflow" ELSE "outflow",
               <<>>, debt.amount, debt.category, Undefined, NoItems, storageOk)
        /\ lastCall' = Call("markAsPaid", debtId,
                            IF storageOk THEN "ok" ELSE "StorageError")
        /\ UNCHANGED <<products, bills, now, tasks, form, standalone, subscriptions, views>>

\* markAsPaid up to its await: the two tests and the ledger write.  Its outcome
\* is "awaiting" when the transaction is created and the rest of the call is
\* a continuation.
MarkAsPaid(debtId, storageOk) ==
    LET debtIndex == FindIndex(debts, LAMBDA d : d.id = debtId)
        debt == debts[debtIndex]
    IN  /\ IF debtIndex = 0
           THEN /\ lastCall' = Call("markAsPaid", debtId, "NotFound")
                /\ UNCHANGED <<transactions, nextId, tasks>>
           ELSE IF debt.status = "paid"
           THEN /\ lastCall' = Call("markAsPaid", debtId, "AlreadyPaid")
                /\ UNCHANGED <<transactions, nextId, tasks>>
           ELSE /\ nextId <= MaxId
                /\ AddTransactionWrites(
                       IF debt.type = "receivable" THEN "inflow" ELSE "outflow",
                       SettlementDescription(debt), debt.amount, debt.category,
                       Undefined, NoItems, storageOk)
                /\ IF storageOk
                   THEN /\ tasks' = Append(tasks, MarkAsPaidTask(debtId, debtIndex))
                        /\ lastCall' = Dispatching(Call("markAsPaid", debtId, "awaiting"),
                                                   AddTransactionEvents(transactions'))
                   ELSE /\ tasks' = tasks
                        /\ lastCall' = Call("markAsPaid", debtId, "StorageError")
        /\ UNCHANGED <<products, debts, bills, now, form, standalone, subscriptions, views>>

\* The paid debt without its link to the ledger.
PaidDebt_NoLink(debt, transactionId) ==
    [debt EXCEPT !.status = "paid", !.paidAt = now]

\* The debt markAsPaid stores once the transaction exists.
PaidDebt(debt, transactionId) ==
    [debt EXCEPT !.status = "paid", !.paidAt = now, !.linkedTransactionId = transactionId]

\* markAsPaid behind its await: the debt write.
MarkAsPaidResume ==
    /\ tasks # <<>>
    /\ Head(tasks).op = "markAsPaid"
    /\ LET task == Head(tasks)
       IN  /\ debts' = [task.debts EXCEPT ![task.debtIndex] =
                           PaidDebt(task.debts[task.debtIndex], task.transactionId)]
           /\ lastCall' = Dispatching(Call("markAsPaid", task.id, "ok"),
                                      SaveDebtsEvents(debts'))
    /\ tasks' = Tail(tasks)
    /\ UNCHANGED <<products, transactions, bills, now, nextId, form,
                   standalone, subscriptions, views>>

\* A caller reads the list.
GetAllDebts(filters) ==
    /\ lastCall' = Query("getAllDebts", filters, GetAllDebtsResult(debts, now, filters))
    /\ UNCHANGED <<products, transactions, debts, bills, now, nextId, tasks,
                   form, standalone, subscriptions, views>>

RECURSIVE SumAmounts(_)
\* reduce((sum, d) => sum + d.amount, 0)
SumAmounts(list) ==
    IF list = <<>> THEN 0 ELSE Head(list).amount + SumAmounts(Tail(list))

\* The statistics computed over the list.
DebtStatsOf(list) ==
    LET receivables == Filter(list, LAMBDA d : d.type = "receivable")
        payables == Filter(list, LAMBDA d : d.type = "payable")
        open(d) == d.status = "pending" \/ d.status = "overdue"
        totalReceivablesPending == SumAmounts(Filter(receivables, open))
        totalPayablesPending == SumAmounts(Filter(payables, open))
    IN  [totalReceivablesPending |-> totalReceivablesPending,
         totalPayablesPending |-> totalPayablesPending,
         netBalance |-> totalReceivablesPending - totalPayablesPending,
         overdueReceivables |->
             Len(Filter(receivables, LAMBDA d : d.status = "overdue")),
         overduePayables |-> Len(Filter(payables, LAMBDA d : d.status = "overdue")),
         totalPendingDebts |-> Len(Filter(list, open))]

\* getDebtStats over the stored array as it is.
GetDebtStatsResult_Stored(stored, at) == DebtStatsOf(stored)

\* What getDebtStats() returns at time `at` for the stored array `stored`.
GetDebtStatsResult(stored, at) == DebtStatsOf(GetAllDebtsResult(stored, at, NoFilters))

\* A caller reads the statistics.
GetDebtStats ==
    /\ lastCall' = Query("getDebtStats", NoFilters, GetDebtStatsResult(debts, now))
    /\ UNCHANGED <<products, transactions, debts, bills, now, nextId, tasks, form,
                   standalone, subscriptions, views>>

\* Time passes.
Tick ==
    /\ now < MaxTime
    /\ now' = now + 1
    /\ lastCall' = Call("tick", NoId, "ok")
    /\ UNCHANGED <<products, transactions, debts, bills, nextId, tasks, form,
                   standalone, subscriptions, views>>

----------------------------------------------------------------------------
(* The product catalog *)

RECURSIVE SumQuantities(_)
\* variants.reduce((sum, v) => sum + v.quantity, 0)
SumQuantities(variants) ==
    IF variants = <<>> THEN 0
    ELSE Head(variants).quantity + SumQuantities(Tail(variants))

CalculateTotalQuantity(hasVariants, variants, standaloneQty) ==
    IF hasVariants /\ Len(variants) > 0 THEN SumQuantities(variants) ELSE standaloneQty

\* Math.max(0, n)
Max0(n) == IF n > 0 THEN n ELSE 0

\* getAllProducts applying the stock filter to the stored array.
GetAllProductsResult_StockOnly(stored, filters) ==
    LET term == ToLowerCase(filters.searchTerm)
        bySearch == IF Truthy(filters.searchTerm)
                    THEN Filter(stored, LAMBDA q :
                            \/ Includes(ToLowerCase(q.name), term)
                            \/ OptIncludes(q.description, term)
                            \/ OptIncludes(q.category, term))
                    ELSE stored
        byCategory == IF Truthy(filters.category)
                      THEN Filter(bySearch, LAMBDA q : q.category = filters.category)
                      ELSE bySearch
        byStock == IF filters.lowStock
                   THEN Filter(stored, LAMBDA q : q.totalQuantity <= 10)
                   ELSE byCategory
    IN  SortBy(byStock, LAMBDA a, b : b.updatedAt < a.updatedAt)

\* The list getAllProducts(filters) returns for the stored array `stored`.
GetAllProductsResult(stored, filters) ==
    LET term == ToLowerCase(filters.searchTerm)
        bySearch == IF Truthy(filters.searchTerm)
                    THEN Filter(stored, LAMBDA q :
                            \/ Includes(ToLowerCase(q.name), term)
                            \/ OptIncludes(q.description, term)
                            \/ OptIncludes(q.category, term))
                    ELSE stored
        byCategory == IF Truthy(filters.category)
                      THEN Filter(bySearch, LAMBDA q : q.category = filters.category)
                      ELSE bySearch
        byStock == IF filters.lowStock
                   THEN Filter(byCategory, LAMBDA q : q.totalQuantity <= 10)
                   ELSE byCategory
    IN  SortBy(byStock, LAMBDA a, b : b.updatedAt < a.updatedAt)

NoProductFilters == [searchTerm |-> <<>>, category |-> Undefined, lowStock |-> FALSE]

\* A caller reads the product list.
GetAllProducts(filters) ==
    /\ lastCall' = Query("getAllProducts", filters, GetAllProductsResult(products, filters))
    /\ UNCHANGED <<products, transactions, debts, bills, now, nextId, tasks, form,
                   standalone, subscriptions, views>>

\* The variants createProduct stores: each input variant with a fresh id.
NewVariants(variants) ==
    [i \in 1..Len(variants) |->
        [id |-> nextId + i - 1, name |-> variants[i].name,
         quantity |-> variants[i].quantity]]

\* The event saveProducts dispatches once the array `written` is stored.
SaveProductsEvents(written) == <<StorageEvent("inventory_products", Stringify(written))>>

\* The record createProduct builds; its id follows those of its variants.
NewProduct(name, price, description, image, category, hasVariants, variants, standaloneQuantity) ==
    [id |-> nextId + Len(variants), name |-> Trim(name),
     description |-> IF description = Undefined THEN Undefined ELSE Trim(description),
     image |-> image, price |-> price,
     totalQuantity |-> CalculateTotalQuantity(hasVariants, NewVariants(variants),
                                              standaloneQuantity),
     hasVariants |-> hasVariants, variants |-> NewVariants(variants),
     category |-> IF category = Undefined THEN Undefined ELSE Trim(category),
     createdAt |-> now, updatedAt |-> now]

CreateProduct(name, price, description, image, category, hasVariants, variants, standaloneQuantity) ==
    /\ nextId + Len(variants) <= MaxId
    /\ Len(products) < MaxProducts
    /\ products' = Append(products,
            NewProduct(name, price, description, image, category, hasVariants,
                       variants, standaloneQuantity))
    /\ nextId' = nextId + Len(variants) + 1
    /\ standalone' = [id \in DOMAIN standalone \cup {nextId + Len(variants)} |->
                         IF id = nextId + Len(variants) THEN standaloneQuantity
                         ELSE standalone[id]]
    /\ lastCall' = Dispatching(Call("createProduct", nextId + Len(variants), "ok"),
                               SaveProductsEvents(products'))
    /\ UNCHANGED <<transactions, debts, bills, now, tasks, form, subscriptions, views>>

\* The record updateProduct stores for currentProduct.
UpdatedProduct(currentProduct, updates) ==
    LET hasVariants == IF Has(updates, "hasVariants") THEN updates.hasVariants
                       ELSE currentProduct.hasVariants
        variants == IF Has(updates, "variants") THEN updates.variants
                    ELSE currentProduct.variants
        standaloneQty == IF Has(updates, "standaloneQuantity")
                         THEN updates.standaloneQuantity
                         ELSE currentProduct.totalQuantity
    IN  [Spread(currentProduct, updates) EXCEPT
            !.name = TrimOr(Opt(updates, "name"), currentProduct.name),
            !.description = IF Has(updates, "description")
                            THEN Trim(updates.description) ELSE Undefined,
            !.category = IF Has(updates, "category")
                         THEN Trim(updates.category) ELSE Undefined,
            !.hasVariants = hasVariants,
            !.variants = variants,
            !.totalQuantity = CalculateTotalQuantity(hasVariants, variants, standaloneQty),
            !.updatedAt = now]

\* What updateProduct does to the stored array `stored`: the array it saves,
\* or the error it throws.
UpdateProductOn(stored, productId, updates) ==
    LET productIndex == FindIndex(stored, LAMBDA q : q.id = productId)
    IN  IF productIndex = 0
        THEN [outcome |-> "NotFound", products |-> stored, events |-> NoEvents]
        ELSE LET written == [stored EXCEPT ![productIndex] =
                                UpdatedProduct(stored[productIndex], updates)]
             IN  [outcome |-> "ok", products |-> written,
                  events |-> SaveProductsEvents(written)]

\* The standalone quantity last passed in, after updateProduct(productId, updates).
StandaloneAfter(history, productId, updates, outcome) ==
    IF outcome = "ok" /\ Has(updates, "standaloneQuantity")
    THEN [history EXCEPT ![productId] = updates.standaloneQuantity]
    ELSE history

UpdateProduct(productId, updates) ==
    LET done == UpdateProductOn(products, productId, updates)
    IN  /\ products' = done.products
        /\ standalone' = StandaloneAfter(standalone, productId, updates, done.outcome)
        /\ lastCall' = Dispatching(CallWith("updateProduct", productId, updates,
                                            done.outcome), done.events)
        /\ UNCHANGED <<transactions, debts, bills, now, nextId, tasks, form,
                       subscriptions, views>>

\* deleteProduct throwing when no product has the identifier.
DeleteProduct_Strict(productId) ==
    /\ products' = Filter(products, LAMBDA q : q.id # productId)
    /\ standalone' = [id \in DOMAIN standalone \ {productId} |-> standalone[id]]
    /\ lastCall' = IF HasId(products, productId)
                   THEN Dispatching(Call("deleteProduct", productId, "ok"),
                                    SaveProductsEvents(products'))
                   ELSE Call("deleteProduct", productId, "NotFound")
    /\ UNCHANGED <<transactions, debts, bills, now, nextId, tasks, form,
                   subscriptions, views>>

DeleteProduct(productId) ==
    /\ products' = Filter(products, LAMBDA q : q.id # productId)
    /\ standalone' = [id \in DOMAIN standalone \ {productId} |-> standalone[id]]
    /\ lastCall' = Dispatching(Call("deleteProduct", productId, "ok"),
                               SaveProductsEvents(products'))
    /\ UNCHANGED <<transactions, debts, bills, now, nextId, tasks, form,
                   subscriptions, views>>

\* updateVariantQuantity saving the product before it looks for the variant.
UpdateVariantQuantityOn_SaveFirst(stored, productId, variantId, newQuantity) ==
    LET productIndex == FindIndex(stored, LAMBDA q : q.id = productId)
        product == stored[productIndex]
        variantIndex == FindIndex(product.variants, LAMBDA v : v.id = variantId)
        variants == [product.variants EXCEPT ![variantIndex].quantity = Max0(newQuantity)]
    IN  IF productIndex = 0
        THEN [outcome |-> "NotFound", products |-> stored, events |-> NoEvents]
        ELSE IF variantIndex = 0
        THEN [outcome |-> "NotFound", products |-> stored,
              events |-> SaveProductsEvents(stored)]
        ELSE LET written == [stored EXCEPT ![productIndex] =
                                [product EXCEPT !.variants = variants,
                                                !.totalQuantity = SumQuantities(variants),
                                                !.updatedAt = now]]
             IN  [outcome |-> "ok", products |-> written,
                  events |-> SaveProductsEvents(written)]

\* updateVariantQuantity without the clamp at zero.
UpdateVariantQuantityOn_NoClamp(stored, productId, variantId, newQuantity) ==
    LET productIndex == FindIndex(stored, LAMBDA q : q.id = productId)
        product == stored[productIndex]
        variantIndex == FindIndex(product.variants, LAMBDA v : v.id = variantId)
        variants == [product.variants EXCEPT ![variantIndex].quantity = newQuantity]
    IN  IF productIndex = 0 \/ variantIndex = 0
        THEN [outcome |-> "NotFound", products |-> stored, events |-> NoEvents]
        ELSE LET written == [stored EXCEPT ![productIndex] =
                                [product EXCEPT !.variants = variants,
                                                !.totalQuantity = SumQuantities(variants),
                                                !.updatedAt = now]]
             IN  [outcome |-> "ok", products |-> written,
                  events |-> SaveProductsEvents(written)]

\* What updateVariantQuantity does to the stored array `stored`: the array it
\* saves, or the error it throws.
UpdateVariantQuantityOn(stored, productId, variantId, newQuantity) ==
    LET productIndex == FindIndex(stored, LAMBDA q : q.id = productId)
        product == stored[productIndex]
        variantIndex == FindIndex(product.variants, LAMBDA v : v.id = variantId)
        variants == [product.variants EXCEPT ![variantIndex].quantity = Max0(newQuantity)]
    IN  IF productIndex = 0
        THEN [outcome |-> "NotFound", products |-> stored, events |-> NoEvents]
        ELSE IF variantIndex = 0
        THEN [outcome |-> "NotFound", products |-> stored, events |-> NoEvents]
        ELSE LET written == [stored EXCEPT ![productIndex] =
                                [product EXCEPT !.variants = variants,
                                                !.totalQuantity = SumQuantities(variants),
                                                !.updatedAt = now]]
             IN  [outcome |-> "ok", products |-> written,
                  events |-> SaveProductsEvents(written)]

UpdateVariantQuantity(productId, variantId, newQuantity) ==
    LET done == UpdateVariantQuantityOn(products, productId, variantId, newQuantity)
    IN  /\ products' = done.products
        /\ lastCall' = Dispatching(CallWith("updateVariantQuantity", productId,
                                            <<variantId, newQuantity>>, done.outcome),
                                   done.events)
        /\ UNCHANGED <<transactions, debts, bills, now, nextId, tasks, form,
                       standalone, subscriptions, views>>

----------------------------------------------------------------------------
(* The sale form *)

\* The form before it is mounted and after it is closed.
ClosedForm ==
    [open |-> FALSE, products |-> <<>>, productQuantities |-> <<>>,
     paymentMethod |-> <<"Efectivo">>]

\* The component mounts: loadProducts() reads the catalog once.
OpenForm ==
    /\ ~form.open
    /\ form' = [open |-> TRUE,
                products |-> GetAllProductsResult(products, NoProductFilters),
                productQuantities |-> <<>>,
                paymentMethod |-> <<"Efectivo">>]
    /\ lastCall' = Call("openForm", NoId, "ok")
    /\ UNCHANGED <<products, transactions, debts, bills, now, nextId, tasks,
                   standalone, subscriptions, views>>

\* The component unmounts without a sale.
CloseForm ==
    /\ form.open
    /\ form' = ClosedForm
    /\ lastCall' = Call("closeForm", NoId, "ok")
    /\ UNCHANGED <<products, transactions, debts, bills, now, nextId, tasks,
                   standalone, subscriptions, views>>

\* The position of productId's line in productQuantities, 0 when it has none.
LineIndex(productId) ==
    FindIndex(form.productQuantities, LAMBDA e : e.productId = productId)

\* productData?.quantity || 0
CurrentQuantity(productId) ==
    IF LineIndex(productId) = 0 THEN 0
    ELSE form.productQuantities[LineIndex(productId)].quantity

\* The variant the product's card shows as selected.
SelectedVariantId(product) ==
    IF LineIndex(product.id) # 0
          /\ form.productQuantities[LineIndex(product.id)].selectedVariantId # NoId
    THEN form.productQuantities[LineIndex(product.id)].selectedVariantId
    ELSE IF product.hasVariants /\ Len(product.variants) > 0
    THEN product.variants[1].id
    ELSE NoId

GetMaxStock(product, variantId) ==
    IF variantId # NoId
    THEN IF \E i \in 1..Len(product.variants) : product.variants[i].id = variantId
         THEN product.variants[FindIndex(product.variants,
                                         LAMBDA v : v.id = variantId)].quantity
         ELSE 0
    ELSE product.totalQuantity

\* productQuantities after updateProductQuantity(productId, newQuantity, variantId):
\* an object keeps its keys in the order they were first set.
UpdatedQuantities(productId, newQuantity, variantId) ==
    LET line == [productId |-> productId, quantity |-> newQuantity,
                 selectedVariantId |-> variantId]
    IN  IF newQuantity = 0
        THEN Filter(form.productQuantities, LAMBDA e : e.productId # productId)
        ELSE IF LineIndex(productId) = 0
        THEN Append(form.productQuantities, line)
        ELSE [form.productQuantities EXCEPT ![LineIndex(productId)] = line]

\* The "+" button of a product card, disabled once the quantity reaches the
\* stock the form shows.
Increment(productId) ==
    /\ form.open
    /\ \E i \in 1..Len(form.products) :
          LET product == form.products[i]
              maxStock == GetMaxStock(product, SelectedVariantId(product))
          IN  /\ product.id = productId
              /\ \A j \in 1..(i - 1) : form.products[j].id # productId
              /\ ~(CurrentQuantity(productId) >= maxStock \/ maxStock = 0)
              /\ form' = [form EXCEPT !.productQuantities =
                            UpdatedQuantities(productId, CurrentQuantity(productId) + 1,
                                              SelectedVariantId(product))]
    /\ lastCall' = Call("increment", productId, "ok")
    /\ UNCHANGED <<products, transactions, debts, bills, now, nextId, tasks,
                   standalone, subscriptions, views>>

\* The "-" button of a product card.
Decrement(productId) ==
    /\ form.open
    /\ \E i \in 1..Len(form.products) :
          LET product == form.products[i]
          IN  /\ product.id = productId
              /\ \A j \in 1..(i - 1) : form.products[j].id # productId
              /\ CurrentQuantity(productId) # 0
              /\ form' = [form EXCEPT !.productQuantities =
                            UpdatedQuantities(productId,
                                              Max0(CurrentQuantity(productId) - 1),
                                              SelectedVariantId(product))]
    /\ lastCall' = Call("decrement", productId, "ok")
    /\ UNCHANGED <<products, transactions, debts, bills, now, nextId, tasks,
                   standalone, subscriptions, views>>

\* The variant selector of a product card: updateProductVariant.
UpdateProductVariant(productId, variantId) ==
    /\ form.open
    /\ \E i \in 1..Len(form.products) :
          LET product == form.products[i]
          IN  /\ product.id = productId
              /\ \A j \in 1..(i - 1) : form.products[j].id # productId
              /\ product.hasVariants /\ Len(product.variants) > 0
              /\ \E k \in 1..Len(product.variants) :
                    /\ product.variants[k].id = variantId
                    /\ product.variants[k].quantity # 0
                    /\ IF product.variants[k].quantity > 0
                       THEN form' = [form EXCEPT !.productQuantities =
                                        UpdatedQuantities(productId, 1, variantId)]
                       ELSE form' = form
    /\ lastCall' = Call("updateProductVariant", productId, "ok")
    /\ UNCHANGED <<products, transactions, debts, bills, now, nextId, tasks,
                   standalone, subscriptions, views>>

RECURSIVE CalculateTotal(_, _)
\* calculateTotal: price times quantity over the lines, at the form's prices.
CalculateTotal(lines, snapshot) ==
    IF lines = <<>> THEN 0
    ELSE LET productIndex == FindIndex(snapshot, LAMBDA q : q.id = Head(lines).productId)
         IN  (IF productIndex = 0 THEN 0
              ELSE snapshot[productIndex].price * Head(lines).quantity)
             + CalculateTotal(Tail(lines), snapshot)

RECURSIVE SaleStockWrites_FromStore(_, _, _, _)
\* The stock writes of handleSubmit taking a product's quantity from the store
\* instead of the form's list.
SaleStockWrites_FromStore(stored, history, lines, snapshot) ==
    IF lines = <<>>
    THEN [outcome |-> "ok", products |-> stored, standalone |-> history,
          events |-> NoEvents]
    ELSE
      LET line == Head(lines)
          productIndex == FindIndex(snapshot, LAMBDA q : q.id = line.productId)
          product == snapshot[productIndex]
          variantIndex == FindIndex(product.variants,
                                    LAMBDA v : v.id = line.selectedVariantId)
          updates == [standaloneQuantity |->
                         IF HasId(stored, line.productId)
                         THEN ById(stored, line.productId).totalQuantity - line.quantity
                         ELSE product.totalQuantity - line.quantity]
          done == IF line.selectedVariantId # NoId
                  THEN UpdateVariantQuantityOn(stored, line.productId,
                           line.selectedVariantId,
                           product.variants[variantIndex].quantity - line.quantity)
                  ELSE UpdateProductOn(stored, line.productId, updates)
      IN  IF productIndex = 0
          THEN SaleStockWrites_FromStore(stored, history, Tail(lines), snapshot)
          ELSE IF line.selectedVariantId # NoId /\ variantIndex = 0
          THEN SaleStockWrites_FromStore(stored, history, Tail(lines), snapshot)
          ELSE IF done.outcome # "ok"
          THEN [outcome |-> done.outcome, products |-> done.products,
                standalone |-> history, events |-> NoEvents]
          ELSE [SaleStockWrites_FromStore(done.products,
                    IF line.selectedVariantId # NoId THEN history
                    ELSE StandaloneAfter(history, line.productId, updates, "ok"),
                    Tail(lines), snapshot)
                EXCEPT !.events = done.events \o @]

RECURSIVE SaleStockWrites(_, _, _, _)
\* The loop of handleSubmit over the lines: each line writes the stock it
\* computes from the form's copy of the product.  The first write that throws
\* ends the loop.
SaleStockWrites(stored, history, lines, snapshot) ==
    IF lines = <<>>
    THEN [outcome |-> "ok", products |-> stored, standalone |-> history,
          events |-> NoEvents]
    ELSE
      LET line == Head(lines)
          productIndex == FindIndex(snapshot, LAMBDA q : q.id = line.productId)
          product == snapshot[productIndex]
          variantIndex == FindIndex(product.variants,
                                    LAMBDA v : v.id = line.selectedVariantId)
          updates == [standaloneQuantity |-> product.totalQuantity - line.quantity]
          done == IF line.selectedVariantId # NoId
                  THEN UpdateVariantQuantityOn(stored, line.productId,
                           line.selectedVariantId,
                           product.variants[variantIndex].quantity - line.quantity)
                  ELSE UpdateProductOn(stored, line.productId, updates)
      IN  IF productIndex = 0
          THEN SaleStockWrites(stored, history, Tail(lines), snapshot)
          ELSE IF line.selectedVariantId # NoId /\ variantIndex = 0
          THEN SaleStockWrites(stored, history, Tail(lines), snapshot)
          ELSE IF done.outcome # "ok"
          THEN [outcome |-> done.outcome, products |-> done.products,
                standalone |-> history, events |-> NoEvents]
          ELSE [SaleStockWrites(done.products,
                    IF line.selectedVariantId # NoId THEN history
                    ELSE StandaloneAfter(history, line.productId, updates, "ok"),
                    Tail(lines), snapshot)
                EXCEPT !.events = done.events \o @]

\* The description handleSubmit builds.
SaleDescription(lines, snapshot) ==
    IF Len(lines) = 1
    THEN LET productIndex == FindIndex(snapshot, LAMBDA q : q.id = lines[1].productId)
         IN  <<"Venta: ">>
             \o (IF productIndex = 0 THEN Undefined ELSE snapshot[productIndex].name)
             \o (IF lines[1].quantity > 1 THEN <<" x", ToString(lines[1].quantity)>>
                 ELSE <<>>)
    ELSE <<"Venta: ", ToString(Len(lines)), " productos">>

\* The items handleSubmit builds: one per line, with the name and the price
\* the form holds.
SaleItems(lines, snapshot) ==
    LET item(line) ==
          LET product == snapshot[FindIndex(snapshot, LAMBDA q : q.id = line.productId)]
              variantIndex == FindIndex(product.variants,
                                        LAMBDA v : v.id = line.selectedVariantId)
          IN  [productId |-> product.id, productName |-> product.name,
               quantity |-> line.quantity,
               variantName |-> IF line.selectedVariantId # NoId /\ variantIndex # 0
                               THEN product.variants[variantIndex].name
                               ELSE Undefined,
               price |-> product.price]
        known == Filter(lines, LAMBDA l : \E i \in 1..Len(snapshot) :
                                             snapshot[i].id = l.productId)
    IN  [i \in 1..Len(known) |-> item(known[i])]

\* The onAddTransaction property of the form: the caller's handler, which
\* records the sale in the ledger.
OnAddTransaction(description, amount, paymentMethod, items) ==
    AddTransactionWrites("inflow", description, amount, Undefined, paymentMethod,
                         items, TRUE)

\* handleSubmit undoing its stock writes when one of them throws.
HandleSubmit_RollsBack(closes) ==
    /\ form.open
    /\ Len(form.productQuantities) # 0
    /\ nextId <= MaxId
    /\ LET lines == form.productQuantities
           done == SaleStockWrites(products, standalone, lines, form.products)
       IN  /\ products' = IF done.outcome = "ok" THEN done.products ELSE products
           /\ standalone' = done.standalone
           /\ IF done.outcome = "ok"
              THEN /\ OnAddTransaction(SaleDescription(lines, form.products),
                                       CalculateTotal(lines, form.products),
                                       IF Truthy(form.paymentMethod)
                                       THEN form.paymentMethod ELSE Undefined,
                                       SaleItems(lines, form.products))
                   /\ form' = IF closes THEN ClosedForm
                              ELSE [form EXCEPT !.productQuantities = <<>>,
                                                !.paymentMethod = <<>>]
              ELSE UNCHANGED <<transactions, nextId, form>>
           /\ lastCall' = Dispatching(CallWith("handleSubmit", NoId, lines, done.outcome),
                  done.events \o (IF done.outcome = "ok"
                                  THEN AddTransactionEvents(transactions')
                                  ELSE NoEvents))
    /\ UNCHANGED <<debts, bills, now, tasks, subscriptions, views>>

\* handleSubmit: the stock writes, then the transaction, then the reset of the
\* form, which onClose (when the caller passes one) unmounts.
HandleSubmit(closes) ==
    /\ form.open
    /\ Len(form.productQuantities) # 0
    /\ nextId <= MaxId
    /\ LET lines == form.productQuantities
           done == SaleStockWrites(products, standalone, lines, form.products)
       IN  /\ products' = done.products
           /\ standalone' = done.standalone
           /\ IF done.outcome = "ok"
              THEN /\ OnAddTransaction(SaleDescription(lines, form.products),
                                       CalculateTotal(lines, form.products),
                                       IF Truthy(form.paymentMethod)
                                       THEN form.paymentMethod ELSE Undefined,
                                       SaleItems(lines, form.products))
                   /\ form' = IF closes THEN ClosedForm
                              ELSE [form EXCEPT !.productQuantities = <<>>,
                                                !.paymentMethod = <<>>]
              ELSE UNCHANGED <<transactions, nextId, form>>
           /\ lastCall' = Dispatching(CallWith("handleSubmit", NoId, lines, done.outcome),
                  done.events \o (IF done.outcome = "ok"
                                  THEN AddTransactionEvents(transactions')
                                  ELSE NoEvents))
    /\ UNCHANGED <<debts, bills, now, tasks, subscriptions, views>>

----------------------------------------------------------------------------
(* The bills *)

\* The event saveBills dispatches once the array `written` is stored.
SaveBillsEvents(written) == <<StorageEvent("app_bills", Stringify(written))>>

\* The record createBill builds.
NewBill(name, amount, dueDate, frequency, category, notes) ==
    [id |-> nextId, name |-> Trim(name), amount |-> amount, dueDate |-> dueDate,
     frequency |-> frequency, category |-> TrimOrUndefined(category),
     notes |-> TrimOrUndefined(notes), isPaid |-> FALSE, createdAt |-> now]

CreateBill(name, amount, dueDate, frequency, category, notes) ==
    /\ Len(bills) < MaxBills
    /\ nextId <= MaxId
    /\ bills' = Append(bills, NewBill(name, amount, dueDate, frequency, category, notes))
    /\ nextId' = nextId + 1
    /\ lastCall' = Dispatching(Call("createBill", nextId, "ok"), SaveBillsEvents(bills'))
    /\ UNCHANGED <<products, transactions, debts, now, tasks, form, standalone,
                   subscriptions, views>>

\* The record updateBill stores for `bill`.
UpdatedBill(bill, updates) ==
    [Spread(bill, updates) EXCEPT
        !.name = TrimOr(Opt(updates, "name"), bill.name),
        !.category = TrimOrUndefined(Opt(updates, "category")),
        !.notes = TrimOrUndefined(Opt(updates, "notes"))]

UpdateBill(billId, updates) ==
    LET billIndex == FindIndex(bills, LAMBDA b : b.id = billId)
    IN  /\ IF billIndex = 0
           THEN /\ lastCall' = Call("updateBill", billId, "NotFound")
                /\ bills' = bills
           ELSE /\ bills' = [bills EXCEPT ![billIndex] = UpdatedBill(bills[billIndex], updates)]
                /\ lastCall' = Dispatching(Call("updateBill", billId, "ok"),
                                           SaveBillsEvents(bills'))
        /\ UNCHANGED <<products, transactions, debts, now, nextId, tasks, form,
                       standalone, subscriptions, views>>

DeleteBill(billId) ==
    /\ bills' = Filter(bills, LAMBDA b : b.id # billId)
    /\ lastCall' = Dispatching(Call("deleteBill", billId, "ok"), SaveBillsEvents(bills'))
    /\ UNCHANGED <<products, transactions, debts, now, nextId, tasks, form,
                   standalone, subscriptions, views>>

\* The payment's description and category.
PaymentDescription(bill) == <<"Pago: ">> \o bill.name

PaymentCategory(bill) ==
    IF Truthy(bill.category) THEN bill.category ELSE <<"Gastos Fijos">>

\* toggleBillPaid recording a payment on every toggle.
ToggleBillPaid_AlwaysRecords(billId, createTransaction, storageOk) ==
    LET billIndex == FindIndex(bills, LAMBDA b : b.id = billId)
        bill == bills[billIndex]
    IN  /\ billIndex # 0
        /\ nextId <= MaxId
        /\ bills' = [bills EXCEPT ![billIndex].isPaid = ~bill.isPaid]
        /\ AddTransactionWrites("outflow", PaymentDescription(bill), bill.amount,
                                PaymentCategory(bill), Undefined, NoItems, storageOk)
        /\ lastCall' = Dispatching(CallWith("toggleBillPaid", billId, createTransaction,
                                            IF storageOk THEN "ok" ELSE "StorageError"),
                                   SaveBillsEvents(bills')
                                   \o (IF storageOk THEN AddTransactionEvents(transactions')
                                       ELSE NoEvents))
        /\ UNCHANGED <<products, debts, now, tasks, form, standalone, subscriptions, views>>

\* toggleBillPaid writing the ledger before the bill: a failed ledger write
\* leaves the bill as it was.
ToggleBillPaid_LedgerFirst(billId, createTransaction, storageOk) ==
    LET billIndex == FindIndex(bills, LAMBDA b : b.id = billId)
        bill == bills[billIndex]
        newPaidStatus == ~bill.isPaid
    IN  /\ IF billIndex = 0
           THEN /\ lastCall' = CallWith("toggleBillPaid", billId, createTransaction,
                                        "NotFound")
                /\ UNCHANGED <<bills, transactions, nextId>>
           ELSE IF newPaidStatus /\ createTransaction
                THEN /\ nextId <= MaxId
                     /\ AddTransactionWrites("outflow", PaymentDescription(bill),
                            bill.amount, PaymentCategory(bill), Undefined, NoItems,
                            storageOk)
                     /\ bills' = IF storageOk
                                 THEN [bills EXCEPT ![billIndex].isPaid = newPaidStatus]
                                 ELSE bills
                     /\ lastCall' = Dispatching(
                            CallWith("toggleBillPaid", billId, createTransaction,
                                     IF storageOk THEN "ok" ELSE "StorageError"),
                            IF storageOk
                            THEN AddTransactionEvents(transactions') \o SaveBillsEvents(bills')
                            ELSE NoEvents)
                ELSE /\ bills' = [bills EXCEPT ![billIndex].isPaid = newPaidStatus]
                     /\ UNCHANGED <<transactions, nextId>>
                     /\ lastCall' = Dispatching(
                            CallWith("toggleBillPaid", billId, createTransaction, "ok"),
                            SaveBillsEvents(bills'))
        /\ UNCHANGED <<products, debts, now, tasks, form, standalone, subscriptions, views>>

\* toggleBillPaid: the bill write, then the ledger write when the bill becomes
\* paid and createTransaction is set.  Nothing follows its await but the
\* return.  With storageOk false the ledger write throws.
ToggleBillPaid(billId, createTransaction, storageOk) ==
    LET billIndex == FindIndex(bills, LAMBDA b : b.id = billId)
        bill == bills[billIndex]
        newPaidStatus == ~bill.isPaid
    IN  /\ IF billIndex = 0
           THEN /\ lastCall' = CallWith("toggleBillPaid", billId, createTransaction,
                                        "NotFound")
                /\ UNCHANGED <<bills, transactions, nextId>>
           ELSE /\ bills' = [bills EXCEPT ![billIndex].isPaid = newPaidStatus]
                /\ IF newPaidStatus /\ createTransaction
                   THEN /\ nextId <= MaxId
                        /\ AddTransactionWrites("outflow", PaymentDescription(bill),
                               bill.amount, PaymentCategory(bill), Undefined, NoItems,
                               storageOk)
                        /\ lastCall' = Dispatching(
                               CallWith("toggleBillPaid", billId, createTransaction,
                                        IF storageOk THEN "ok" ELSE "StorageError"),
                               SaveBillsEvents(bills')
                               \o (IF storageOk THEN AddTransactionEvents(transactions')
                                   ELSE NoEvents))
                   ELSE /\ UNCHANGED <<transactions, nextId>>
                        /\ lastCall' = Dispatching(
                               CallWith("toggleBillPaid", billId, createTransaction, "ok"),
                               SaveBillsEvents(bills'))
        /\ UNCHANGED <<products, debts, now, tasks, form, standalone, subscriptions, views>>

----------------------------------------------------------------------------
(* Independent views *)

Views == {"first", "second"}

\* The view runs no operation.
NotRunning == [key |-> "", read |-> <<>>]

\* An operation of the view starts: const products = getProducts().
ViewGetsProducts(v) ==
    /\ views[v] = NotRunning
    /\ views' = [views EXCEPT ![v] = [key |-> "inventory_products", read |-> products]]
    /\ lastCall' = Call("getProducts", NoId, "ok")
    /\ UNCHANGED <<products, transactions, debts, bills, now, nextId, tasks, form,
                   standalone, subscriptions>>

\* An operation of the view starts: const transactions = getTransactions().
ViewGetsTransactions(v) ==
    /\ views[v] = NotRunning
    /\ views' = [views EXCEPT ![v] = [key |-> "cashier_transactions",
                                      read |-> transactions]]
    /\ lastCall' = Call("getTransactions", NoId, "ok")
    /\ UNCHANGED <<products, transactions, debts, bills, now, nextId, tasks, form,
                   standalone, subscriptions>>

\* createProduct in a view that pushes onto the array in store.
ViewCreatesProduct_Rereads(v, name, price, description, image, category, hasVariants, variants, standaloneQuantity) ==
    /\ views[v].key = "inventory_products"
    /\ nextId + Len(variants) <= MaxId
    /\ products' = Append(products,
            NewProduct(name, price, description, image, category, hasVariants,
                       variants, standaloneQuantity))
    /\ nextId' = nextId + Len(variants) + 1
    /\ standalone' = [id \in DOMAIN standalone \cup {nextId + Len(variants)} |->
                         IF id = nextId + Len(variants) THEN standaloneQuantity
                         ELSE standalone[id]]
    /\ lastCall' = Dispatching(Call("createProduct", nextId + Len(variants), "ok"),
                               SaveProductsEvents(products'))
    /\ views' = [views EXCEPT ![v] = NotRunning]
    /\ UNCHANGED <<transactions, debts, bills, now, tasks, form, subscriptions>>

\* The rest of createProduct in the view: the new product is pushed onto the
\* array the view read, and that array is saved.
ViewCreatesProduct(v, name, price, description, image, category, hasVariants, variants, standaloneQuantity) ==
    /\ views[v].key = "inventory_products"
    /\ nextId + Len(variants) <= MaxId
    /\ products' = Append(views[v].read,
            NewProduct(name, price, description, image, category, hasVariants,
                       variants, standaloneQuantity))
    /\ nextId' = nextId + Len(variants) + 1
    /\ standalone' = [id \in DOMAIN standalone \cup {nextId + Len(variants)} |->
                         IF id = nextId + Len(variants) THEN standaloneQuantity
                         ELSE standalone[id]]
    /\ lastCall' = Dispatching(Call("createProduct", nextId + Len(variants), "ok"),
                               SaveProductsEvents(products'))
    /\ views' = [views EXCEPT ![v] = NotRunning]
    /\ UNCHANGED <<transactions, debts, bills, now, tasks, form, subscriptions>>

\* The rest of updateProduct in the view, on the array the view read.
ViewUpdatesProduct(v, productId, updates) ==
    LET done == UpdateProductOn(views[v].read, productId, updates)
    IN  /\ views[v].key = "inventory_products"
        /\ products' = IF done.outcome = "ok" THEN done.products ELSE products
        /\ standalone' = StandaloneAfter(standalone, productId, updates, done.outcome)
        /\ lastCall' = Dispatching(CallWith("updateProduct", productId, updates,
                                            done.outcome), done.events)
        /\ views' = [views EXCEPT ![v] = NotRunning]
        /\ UNCHANGED <<transactions, debts, bills, now, nextId, tasks, form,
                       subscriptions>>

\* The rest of addTransaction in the view: the new record is pushed onto the
\* array the view read, and that array is saved.
ViewAddsTransaction(v, type, description, amount) ==
    /\ views[v].key = "cashier_transactions"
    /\ nextId <= MaxId
    /\ transactions' = Append(views[v].read,
            NewTransaction(type, description, amount, Undefined, Undefined, NoItems))
    /\ nextId' = nextId + 1
    /\ lastCall' = Dispatching(Call("addTransaction", nextId, "ok"),
                               AddTransactionEvents(transactions'))
    /\ views' = [views EXCEPT ![v] = NotRunning]
    /\ UNCHANGED <<products, debts, bills, now, tasks, form, standalone, subscriptions>>

----------------------------------------------------------------------------
(* Initial state and inputs *)

Init ==
    /\ products = <<>>
    /\ transactions = <<>>
    /\ debts = <<>>
    /\ bills = <<>>
    /\ now = 1
    /\ nextId = 1
    /\ tasks = <<>>
    /\ lastCall = Call("init", NoId, "ok")
    /\ form = ClosedForm
    /\ standalone = EmptyRecord
    /\ subscriptions = <<>>
    /\ views = [v \in Views |-> NotRunning]

Ids == 1..MaxId
TransactionTypes == {"inflow", "outflow"}

\* The debts a caller creates: a receivable and a payable of different amounts.
DebtInputs ==
    {[type |-> "receivable", counterparty |-> <<SP, "Acme">>, amount |-> 10,
      description |-> <<"loan", SP>>],
     [type |-> "payable", counterparty |-> <<"Bob">>, amount |-> 25,
      description |-> <<"rent">>]}

\* An identifier no record has.
AbsentId == MaxId + 1

\* The identifiers of the records of seq.
StoredIds(seq) == {seq[i].id : i \in 1..Len(seq)}

\* The identifiers a caller passes: those of the stored records and an absent one.
IdsOf(seq) == StoredIds(seq) \cup {AbsentId}

\* The updates objects passed to updateDebt.
DebtUpdates ==
    {[dueDate |-> Tomorrow], [status |-> "paid"], [status |-> "pending"]}

\* No continuation is waiting: every call so far was awaited.
Idle == tasks = <<>>

\* The Debt Manager in one view, every call awaited before the next.
NextDebt ==
    \/ \E d \in DebtInputs, dueDate \in {Yesterday, Tomorrow} :
            Idle /\ CreateDebt(d.type, d.counterparty, d.amount, d.description, dueDate,
                               Undefined, Undefined)
    \/ \E debtId \in IdsOf(debts), updates \in DebtUpdates :
            Idle /\ UpdateDebt(debtId, updates)
    \/ \E debtId \in IdsOf(debts) : Idle /\ DeleteDebt(debtId)
    \/ \E debtId \in IdsOf(debts), storageOk \in BOOLEAN :
            Idle /\ MarkAsPaid(debtId, storageOk)
    \/ MarkAsPaidResume

SpecDebt == Init /\ [][NextDebt]_vars

DebtFilters ==
    {NoFilters, [type |-> NoFilter, status |-> "overdue", searchTerm |-> <<>>]}

\* The debt list as time passes: debts are created, edited and deleted, and
\* the list is read.
NextDebtList ==
    \/ \E d \in DebtInputs, dueDate \in {Yesterday, now} :
            CreateDebt(d.type, d.counterparty, d.amount, d.description, dueDate,
                       Undefined, Undefined)
    \/ \E debtId \in IdsOf(debts) : UpdateDebt(debtId, [status |-> "pending"])
    \/ \E debtId \in IdsOf(debts) : DeleteDebt(debtId)
    \/ \E filters \in DebtFilters : GetAllDebts(filters)
    \/ Tick

SpecDebtList == Init /\ [][NextDebtList]_vars

----------------------------------------------------------------------------
(* The catalog and the sale form in one view *)

\* The products a caller creates: one with two variants, one without
\* variants, one with one variant, and one that carries a variant while
\* hasVariants is false.
ProductInputs ==
    {[name |-> <<"Shirt", SP>>, price |-> 20, description |-> Undefined,
      category |-> <<"Ropa">>, hasVariants |-> TRUE,
      variants |-> <<[name |-> <<"S">>, quantity |-> 2],
                     [name |-> <<"M">>, quantity |-> 1]>>,
      standaloneQuantity |-> 0],
     [name |-> <<"Mug">>, price |-> 5, description |-> <<"big">>,
      category |-> Undefined, hasVariants |-> FALSE, variants |-> <<>>,
      standaloneQuantity |-> 2],
     [name |-> <<"Sock">>, price |-> 3, description |-> Undefined,
      category |-> <<"Ropa">>, hasVariants |-> TRUE,
      variants |-> <<[name |-> <<"U">>, quantity |-> 2]>>,
      standaloneQuantity |-> 0],
     [name |-> <<"Cap">>, price |-> 8, description |-> Undefined,
      category |-> Undefined, hasVariants |-> FALSE,
      variants |-> <<[name |-> <<"U">>, quantity |-> 1]>>,
      standaloneQuantity |-> 3]}

\* The updates objects passed to updateProduct.
ProductUpdates ==
    {[standaloneQuantity |-> 1], [hasVariants |-> FALSE], [variants |-> <<>>]}

\* The quantities passed to updateVariantQuantity.
QuantityInputs == {-1, 3}

\* The variant identifiers a caller passes for a product: its own and an absent one.
VariantIdsOf(seq, productId) ==
    IF HasId(seq, productId) THEN IdsOf(ById(seq, productId).variants) ELSE {AbsentId}

\* The Product Catalog Manager in one view.
NextCatalog ==
    \/ \E p \in ProductInputs :
            CreateProduct(p.name, p.price, p.description, Undefined, p.category,
                          p.hasVariants, p.variants, p.standaloneQuantity)
    \/ \E productId \in IdsOf(products), updates \in ProductUpdates :
            UpdateProduct(productId, updates)
    \/ \E productId \in IdsOf(products) : DeleteProduct(productId)
    \/ \E productId \in IdsOf(products) :
          \E variantId \in VariantIdsOf(products, productId),
             newQuantity \in QuantityInputs :
                UpdateVariantQuantity(productId, variantId, newQuantity)

SpecCatalog == Init /\ [][NextCatalog]_vars

\* The sale form over a catalog that only sales change.
NextSale ==
    \/ \E p \in ProductInputs :
            CreateProduct(p.name, p.price, p.description, Undefined, p.category,
                          p.hasVariants, p.variants, p.standaloneQuantity)
    \/ OpenForm
    \/ CloseForm
    \/ \E productId \in Ids : Increment(productId)
    \/ \E productId \in Ids : Decrement(productId)
    \/ \E productId \in Ids, variantId \in Ids : UpdateProductVariant(productId, variantId)
    \/ \E closes \in BOOLEAN : HandleSubmit(closes)

SpecSale == Init /\ [][NextSale]_vars

----------------------------------------------------------------------------
(* The bills in one view *)

\* The bills a caller creates.
BillInputs ==
    {[name |-> <<SP, "Rent">>, amount |-> 25, frequency |-> "monthly",
      category |-> Undefined],
     [name |-> <<"Net">>, amount |-> 10, frequency |-> "once",
      category |-> <<"Servicios", SP>>]}

\* The updates objects passed to updateBill.
BillUpdates == {[amount |-> 10], [isPaid |-> TRUE]}

NextBill ==
    \/ \E b \in BillInputs :
            CreateBill(b.name, b.amount, Tomorrow, b.frequency, b.category, Undefined)
    \/ \E billId \in IdsOf(bills), updates \in BillUpdates : UpdateBill(billId, updates)
    \/ \E billId \in IdsOf(bills) : DeleteBill(billId)
    \/ \E billId \in IdsOf(bills), createTransaction \in BOOLEAN, storageOk \in BOOLEAN :
            ToggleBillPaid(billId, createTransaction, storageOk)

SpecBill == Init /\ [][NextBill]_vars

----------------------------------------------------------------------------
(* All the managers and the sale form in one view *)

\* One input of each kind and the identifiers of stored records, so that every
\* manager takes part.
Next ==
    \/ \E type \in TransactionTypes, storageOk \in BOOLEAN :
            Idle /\ AddTransaction(type, <<"cash">>, 10, Undefined, Undefined, storageOk)
    \/ \E p \in {q \in ProductInputs : q.name = <<"Cap">>} :
            Idle /\ CreateProduct(p.name, p.price, p.description, Undefined, p.category,
                                  p.hasVariants, p.variants, p.standaloneQuantity)
    \/ \E productId \in StoredIds(products) :
            Idle /\ UpdateProduct(productId, [hasVariants |-> TRUE])
    \/ \E productId \in StoredIds(products) : Idle /\ DeleteProduct(productId)
    \/ \E productId \in StoredIds(products) :
          \E variantId \in StoredIds(ById(products, productId).variants) :
                Idle /\ UpdateVariantQuantity(productId, variantId, 0)
    \/ Idle /\ OpenForm
    \/ Idle /\ CloseForm
    \/ \E productId \in Ids : Idle /\ Increment(productId)
    \/ \E productId \in Ids : Idle /\ Decrement(productId)
    \/ \E productId \in Ids, variantId \in Ids :
            Idle /\ UpdateProductVariant(productId, variantId)
    \/ \E closes \in BOOLEAN : Idle /\ HandleSubmit(closes)
    \/ \E d \in {e \in DebtInputs : e.type = "receivable"} :
            Idle /\ CreateDebt(d.type, d.counterparty, d.amount, d.description, Tomorrow,
                               Undefined, Undefined)
    \/ \E debtId \in StoredIds(debts) : Idle /\ UpdateDebt(debtId, [status |-> "paid"])
    \/ \E debtId \in StoredIds(debts) : Idle /\ DeleteDebt(debtId)
    \/ \E debtId \in StoredIds(debts), storageOk \in BOOLEAN :
            Idle /\ MarkAsPaid(debtId, storageOk)
    \/ MarkAsPaidResume
    \/ \E b \in {c \in BillInputs : c.frequency = "once"} :
            Idle /\ CreateBill(b.name, b.amount, Tomorrow, b.frequency, b.category,
                               Undefined)
    \/ \E billId \in StoredIds(bills) : Idle /\ UpdateBill(billId, [amount |-> 10])
    \/ \E billId \in StoredIds(bills) : Idle /\ DeleteBill(billId)
    \/ \E billId \in StoredIds(bills), createTransaction \in BOOLEAN, storageOk \in BOOLEAN :
            Idle /\ ToggleBillPaid(billId, createTransaction, storageOk)

Spec == Init /\ [][Next]_vars

----------------------------------------------------------------------------
(* Properties of the debts *)

\* This step is a call of markAsPaid(id), up to its await.
MarkAsPaidCalled(id) ==
    /\ lastCall'.op = "markAsPaid"
    /\ lastCall'.id = id
    /\ lastCall'.outcome # "ok"

\* This step is the end of a call of markAsPaid(id).
MarkAsPaidReturned(id) ==
    /\ lastCall'.op = "markAsPaid"
    /\ lastCall'.id = id
    /\ lastCall'.outcome = "ok"

\* C2: markAsPaid(id) on a debt stored as pending or overdue appends exactly
\* one transaction (inflow for a receivable, outflow for a payable, of the
\* debt's amount) unless the ledger cannot be written, and the call ends with
\* the debt stored as paid and linked to that transaction; markAsPaid(id) on a
\* debt stored as paid fails with AlreadyPaid and leaves the ledger as it was.
C2_MarkAsPaidSettles ==
    [][\A id \in Ids :
        /\ (MarkAsPaidCalled(id) /\ HasId(debts, id)
                /\ ById(debts, id).status # "paid"
                /\ lastCall'.outcome # "StorageError")
            => /\ lastCall'.outcome = "awaiting"
               /\ Len(transactions') = Len(transactions) + 1
               /\ IsPrefix(transactions, transactions')
               /\ Last(transactions').type =
                     (IF ById(debts, id).type = "receivable" THEN "inflow" ELSE "outflow")
               /\ Last(transactions').amount = ById(debts, id).amount
               /\ ~HasId(transactions, Last(transactions').id)
        /\ MarkAsPaidReturned(id)
            => /\ transactions' = transactions
               /\ HasId(debts', id)
               /\ ById(debts', id).status = "paid"
               /\ ById(debts', id).linkedTransactionId = Last(transactions).id
               /\ Last(transactions).amount = ById(debts', id).amount
        /\ (MarkAsPaidCalled(id) /\ HasId(debts, id) /\ ById(debts, id).status = "paid")
            => /\ lastCall'.outcome = "AlreadyPaid"
               /\ transactions' = transactions
               /\ debts' = debts
    ]_vars

\* A second markAsPaid on a debt that the first one settled has failed.
C2_Witness ==
    /\ lastCall.op = "markAsPaid"
    /\ lastCall.outcome = "AlreadyPaid"
    /\ HasId(debts, lastCall.id)
    /\ ById(debts, lastCall.id).status = "paid"
    /\ HasId(transactions, ById(debts, lastCall.id).linkedTransactionId)
    /\ Len(transactions) = 1

\* C3: a stored debt that is paid stays paid for as long as it is stored.
C3_PaidIsTerminal ==
    [][\A id \in Ids :
        (HasId(debts, id) /\ ById(debts, id).status = "paid" /\ HasId(debts', id))
            => ById(debts', id).status = "paid"]_vars

\* C4: every stored debt that is paid has a linkedTransactionId and a paidAt.
C4_PaidIsLinked ==
    \A i \in 1..Len(debts) :
        debts[i].status = "paid"
            => debts[i].linkedTransactionId # NoId /\ debts[i].paidAt # NoDate

\* Every stored debt that carries a link carries that of a ledger transaction.
LinkedTransactionsExist ==
    \A i \in 1..Len(debts) :
        debts[i].linkedTransactionId # NoId
            => HasId(transactions, debts[i].linkedTransactionId)

\* C5: whenever the stored debts show a debt settled by markAsPaid, the ledger
\* holds the transaction it is linked to; a markAsPaid whose transaction
\* cannot be created writes no debt, then or later.
C5_LedgerBeforeDebt ==
    /\ []LinkedTransactionsExist
    /\ [][\A id \in Ids :
            (MarkAsPaidCalled(id) /\ lastCall'.outcome = "StorageError")
                => /\ debts' = debts
                   /\ transactions' = transactions
                   /\ tasks' = tasks]_vars
    /\ [][debts' # debts /\ lastCall'.op = "markAsPaid"
            => /\ tasks # <<>>
               /\ HasId(transactions, Head(tasks).transactionId)]_vars

\* The ledger holds the settlement and the debt is not yet stored as paid.
C5_Witness ==
    /\ tasks # <<>>
    /\ HasId(transactions, Head(tasks).transactionId)
    /\ ById(debts, Head(tasks).id).status # "paid"

\* This step is a call of getAllDebts() without filters.
GetAllDebtsCalled ==
    /\ lastCall'.op = "getAllDebts"
    /\ lastCall'.args = NoFilters

\* C10: getAllDebts() reports as overdue every debt stored as pending whose
\* dueDate is before the time of the call, and reports every stored debt; a
\* second call right after the first returns the same list; no call changes
\* the stored debts.
C10_OverdueDerivedOnRead ==
    [][/\ GetAllDebtsCalled
          => /\ Len(lastCall'.result) = Len(debts)
             /\ \A i \in 1..Len(debts) :
                  /\ HasId(lastCall'.result, debts[i].id)
                  /\ (debts[i].status = "pending" /\ debts[i].dueDate < now)
                       => ById(lastCall'.result, debts[i].id).status = "overdue"
                  /\ ~(debts[i].status = "pending" /\ debts[i].dueDate < now)
                       => ById(lastCall'.result, debts[i].id) = debts[i]
       /\ (GetAllDebtsCalled /\ lastCall.op = "getAllDebts" /\ lastCall.args = NoFilters)
          => lastCall'.result = lastCall.result
       /\ lastCall'.op = "getAllDebts" => debts' = debts
    ]_vars

\* The list was read after a pending debt fell due: it is stored as pending
\* and reported as overdue, next to a debt that is not.
C10_Witness ==
    /\ lastCall.op = "getAllDebts"
    /\ lastCall.args = NoFilters
    /\ Len(debts) = 2
    /\ \E i \in 1..Len(debts) :
          /\ debts[i].status = "pending"
          /\ debts[i].dueDate < now
          /\ debts[i].dueDate >= debts[i].createdAt
          /\ ById(lastCall.result, debts[i].id).status = "overdue"


----------------------------------------------------------------------------
(* Properties of the product catalog *)

\* The quantity the total of product p must show: the sum of its variants when
\* hasVariants is true and variants is non-empty, otherwise the standalone
\* quantity last passed in for it.
ExpectedTotal(p) ==
    IF p.hasVariants /\ Len(p.variants) > 0 THEN SumQuantities(p.variants)
    ELSE standalone[p.id]

\* C1: after any sequence of createProduct, updateProduct and
\* updateVariantQuantity calls every stored product's totalQuantity is the sum
\* of its variants' quantities when hasVariants is true and variants is
\* non-empty, and the last-set standalone quantity otherwise.
C1_TotalQuantityInvariant ==
    \A i \in 1..Len(products) : products[i].totalQuantity = ExpectedTotal(products[i])

\* A product with hasVariants false that carries variants has just had one of
\* them set through updateVariantQuantity.
C1_Witness ==
    /\ lastCall.op = "updateVariantQuantity"
    /\ lastCall.outcome = "ok"
    /\ HasId(products, lastCall.id)
    /\ ~ById(products, lastCall.id).hasVariants
    /\ Len(ById(products, lastCall.id).variants) > 0

\* C9: updateVariantQuantity(productId, variantId, newQuantity) stores
\* max(0, newQuantity) as the quantity of the targeted variant, so that
\* quantity is never negative after the call.
C9_QuantityClamped ==
    [][(lastCall'.op = "updateVariantQuantity" /\ lastCall'.outcome = "ok")
        => LET variant == ById(ById(products', lastCall'.id).variants, lastCall'.args[1])
               newQuantity == lastCall'.args[2]
           IN  /\ variant.quantity = (IF newQuantity > 0 THEN newQuantity ELSE 0)
               /\ variant.quantity >= 0]_vars

\* updateVariantQuantity has returned from a call with a negative newQuantity.
C9_Witness ==
    /\ lastCall.op = "updateVariantQuantity"
    /\ lastCall.outcome = "ok"
    /\ lastCall.args[2] < 0
    /\ ById(ById(products, lastCall.id).variants, lastCall.args[1]).quantity = 0

----------------------------------------------------------------------------
(* Properties of a sale *)

\* The line of the sale for productId, and whether there is one.
InSale(lines, productId) == \E k \in 1..Len(lines) : lines[k].productId = productId

LineOf(lines, productId) == lines[FindIndex(lines, LAMBDA l : l.productId = productId)]

RECURSIVE SaleAmount(_, _)
\* The sum over the lines of price times quantity, at the prices in the store.
SaleAmount(lines, stored) ==
    IF lines = <<>> THEN 0
    ELSE ById(stored, Head(lines).productId).price * Head(lines).quantity
         + SaleAmount(Tail(lines), stored)

\* What the sale of `lines` must do to product `before`, which it leaves as `after`.
SoldFrom(lines, before, after) ==
    IF ~InSale(lines, before.id)
    THEN /\ after.totalQuantity = before.totalQuantity
         /\ \A j \in 1..Len(before.variants) :
               after.variants[j].quantity = before.variants[j].quantity
    ELSE LET line == LineOf(lines, before.id)
         IN  IF line.selectedVariantId # NoId
             THEN \A j \in 1..Len(before.variants) :
                     after.variants[j].quantity =
                        IF before.variants[j].id = line.selectedVariantId
                        THEN before.variants[j].quantity - line.quantity
                        ELSE before.variants[j].quantity
             ELSE after.totalQuantity = before.totalQuantity - line.quantity

\* What a completed sale must have done in the step that ran it.
SaleSettled ==
    LET lines == lastCall'.args
    IN  /\ Len(transactions') = Len(transactions) + 1
        /\ IsPrefix(transactions, transactions')
        /\ Last(transactions').type = "inflow"
        /\ Last(transactions').amount = SaleAmount(lines, products)
        /\ Len(products') = Len(products)
        /\ \A i \in 1..Len(products) : SoldFrom(lines, products[i], products'[i])

SaleCompleted == lastCall'.op = "handleSubmit" /\ lastCall'.outcome = "ok"

\* C6: a completed sale appends exactly one inflow transaction whose amount is
\* the sum over the lines of price times quantity, and leaves each targeted
\* variant or product lower in the store by exactly the sold quantity than it
\* was immediately before the sale; everything else keeps its quantity.
C6_SaleSettles == [][SaleCompleted => SaleSettled]_vars

\* The same, for the sales made from a form whose product list is what the
\* store holds.
FormIsCurrent == form.products = GetAllProductsResult(products, NoProductFilters)

SaleFromCurrentFormSettles == [][(SaleCompleted /\ FormIsCurrent) => SaleSettled]_vars

\* A sale of two lines has completed.
C6_Witness ==
    /\ lastCall.op = "handleSubmit"
    /\ lastCall.outcome = "ok"
    /\ Len(lastCall.args) = 2
    /\ Len(transactions) > 0


----------------------------------------------------------------------------
(* Properties of the bills and of the ledger *)

\* This step is a call of toggleBillPaid(id, flag) that returns.
ToggleBillPaidReturned(id) ==
    /\ lastCall'.op = "toggleBillPaid"
    /\ lastCall'.id = id
    /\ lastCall'.outcome = "ok"

\* C7: a toggleBillPaid(id, flag) that returns has flipped the stored bill's
\* isPaid, and has appended exactly one outflow transaction of the bill's
\* amount when the new isPaid is true and flag is true; otherwise it has left
\* the ledger as it was.
C7_ToggleRecordsPayment ==
    [][\A id \in Ids :
        ToggleBillPaidReturned(id)
            => /\ HasId(bills, id) /\ HasId(bills', id)
               /\ ById(bills', id).isPaid = ~ById(bills, id).isPaid
               /\ Len(bills') = Len(bills)
               /\ IF ById(bills', id).isPaid /\ lastCall'.args
                  THEN /\ Len(transactions') = Len(transactions) + 1
                       /\ IsPrefix(transactions, transactions')
                       /\ Last(transactions').type = "outflow"
                       /\ Last(transactions').amount = ById(bills, id).amount
                  ELSE transactions' = transactions]_vars

\* A bill has been toggled to paid with the flag set, and the ledger ends with
\* its payment.
C7_Witness ==
    /\ lastCall.op = "toggleBillPaid"
    /\ lastCall.outcome = "ok"
    /\ lastCall.args
    /\ ById(bills, lastCall.id).isPaid
    /\ Len(transactions) = 1
    /\ Last(transactions).type = "outflow"
    /\ Last(transactions).amount = ById(bills, lastCall.id).amount

\* C8: the ledger is append-only: every step of every manager leaves each
\* transaction of the ledger in place with all its fields, and the ledger's
\* length never decreases.
C8_LedgerAppendOnly == [][IsPrefix(transactions, transactions')]_vars

\* The ledger holds a sale with its items, and the product sold has since
\* been deleted.
C8_Witness ==
    /\ Len(transactions) >= 1
    /\ transactions[1].items # NoItems
    /\ lastCall.op = "deleteProduct"
    /\ products = <<>>

----------------------------------------------------------------------------
(* Calls that fail *)

\* Every manager in one view, called with the identifiers of stored records
\* and with identifiers no record has.
NextErrors ==
    \/ \E p \in {q \in ProductInputs : q.name \in {<<"Sock">>, <<"Mug">>}} :
            Idle /\ CreateProduct(p.name, p.price, p.description, Undefined, p.category,
                                  p.hasVariants, p.variants, p.standaloneQuantity)
    \/ \E productId \in IdsOf(products) :
            Idle /\ UpdateProduct(productId, [standaloneQuantity |-> 1])
    \/ \E productId \in IdsOf(products) :
          \E variantId \in VariantIdsOf(products, productId) :
                Idle /\ UpdateVariantQuantity(productId, variantId, 3)
    \/ \E d \in {e \in DebtInputs : e.type = "payable"} :
            Idle /\ CreateDebt(d.type, d.counterparty, d.amount, d.description, Tomorrow,
                               Undefined, Undefined)
    \/ \E debtId \in IdsOf(debts) : Idle /\ UpdateDebt(debtId, [dueDate |-> Tomorrow])
    \/ \E debtId \in IdsOf(debts) : Idle /\ MarkAsPaid(debtId, TRUE)
    \/ MarkAsPaidResume
    \/ \E b \in {c \in BillInputs : c.frequency = "once"} :
            Idle /\ CreateBill(b.name, b.amount, Tomorrow, b.frequency, b.category,
                               Undefined)
    \/ \E billId \in IdsOf(bills) : Idle /\ UpdateBill(billId, [amount |-> 10])
    \/ \E billId \in IdsOf(bills), createTransaction \in BOOLEAN :
            Idle /\ ToggleBillPaid(billId, createTransaction, TRUE)

SpecErrors == Init /\ [][NextErrors]_vars

\* This step is a call whose target does not exist: a product, a variant of a
\* stored product, a debt or a bill with an identifier no record has.
TargetMissing ==
    \/ /\ lastCall'.op \in {"updateProduct", "updateVariantQuantity"}
       /\ ~HasId(products, lastCall'.id)
    \/ /\ lastCall'.op = "updateVariantQuantity"
       /\ HasId(products, lastCall'.id)
       /\ ~HasId(ById(products, lastCall'.id).variants, lastCall'.args[1])
    \/ /\ lastCall'.op \in {"updateDebt", "markAsPaid"}
       /\ Idle
       /\ ~HasId(debts, lastCall'.id)
    \/ /\ lastCall'.op \in {"updateBill", "toggleBillPaid"}
       /\ ~HasId(bills, lastCall'.id)

\* This step is a call of markAsPaid on a debt stored as paid.
TargetPaid ==
    /\ lastCall'.op = "markAsPaid"
    /\ Idle
    /\ HasId(debts, lastCall'.id)
    /\ ById(debts, lastCall'.id).status = "paid"

\* This step wrote nothing and dispatched nothing.
NothingHappened ==
    /\ UNCHANGED <<products, transactions, bills, debts, nextId, tasks>>
    /\ lastCall'.events = NoEvents

\* C11: a call of updateProduct, updateVariantQuantity, updateDebt, markAsPaid,
\* updateBill or toggleBillPaid whose target does not exist throws NotFound,
\* markAsPaid on a paid debt throws AlreadyPaid, and a call that throws either
\* error leaves the four collections as they were, records no transaction and
\* dispatches no event.
C11_FailedCallChangesNothing ==
    [][/\ TargetMissing => lastCall'.outcome = "NotFound"
       /\ TargetPaid => lastCall'.outcome = "AlreadyPaid"
       /\ lastCall'.outcome \in {"NotFound", "AlreadyPaid"} => NothingHappened]_vars

\* A variant that its product does not have was updated while a product and
\* a debt were stored.
C11_Witness ==
    /\ lastCall.op = "updateVariantQuantity"
    /\ lastCall.outcome = "NotFound"
    /\ HasId(products, lastCall.id)
    /\ lastCall.events = NoEvents
    /\ debts # <<>>

----------------------------------------------------------------------------
(* Change events *)

StorageKeys == {"inventory_products", "cashier_transactions", "app_bills", "debts"}

\* The collection stored under a key.
StoredUnder(key) ==
    CASE key = "inventory_products" -> products
      [] key = "cashier_transactions" -> transactions
      [] key = "app_bills" -> bills
      [] key = "debts" -> debts

\* The operations that save the collection stored under a key when they succeed.
WritersOf(key) ==
    CASE key = "inventory_products" ->
            {"createProduct", "updateProduct", "deleteProduct", "updateVariantQuantity"}
      [] key = "cashier_transactions" -> {"addTransaction", "handleSubmit"}
      [] key = "app_bills" -> {"createBill", "updateBill", "deleteBill", "toggleBillPaid"}
      [] key = "debts" -> {"createDebt", "updateDebt", "deleteDebt", "markAsPaid"}

\* The events of a call that carry a key.
EventsFor(call, key) == SelectSeq(call.events, LAMBDA e : e.key = key)

\* C12: a step that changes a collection, and a successful call of an
\* operation that saves it, dispatches an event with the collection's key; the
\* last event a step dispatches with a key carries the serialized collection
\* as the step leaves it stored.
C12_WriteDispatchesEvent ==
    [][\A key \in StorageKeys :
        LET dispatched == EventsFor(lastCall', key)
        IN  /\ StoredUnder(key)' # StoredUnder(key) => dispatched # <<>>
            /\ (lastCall'.op \in WritersOf(key) /\ lastCall'.outcome = "ok")
                    => dispatched # <<>>
            /\ dispatched # <<>>
                    => Last(dispatched).newValue = Stringify(StoredUnder(key)')]_vars

\* toggleBillPaid wrote the bills and then the ledger, and dispatched an event
\* for each.
C12_Witness ==
    /\ lastCall.op = "toggleBillPaid"
    /\ lastCall.events = <<StorageEvent("app_bills", Stringify(bills)),
                           StorageEvent("cashier_transactions", Stringify(transactions))>>
    /\ debts # <<>>

----------------------------------------------------------------------------
(* Subscriptions *)

\* The three managers write, each to a collection of at most one record,
\* time passes over the debt, and views subscribe and unsubscribe.
NextSubscribe ==
    \/ SubscribeToInventory
    \/ SubscribeToDebts
    \/ SubscribeToBills
    \/ \E i \in DOMAIN subscriptions : Unsubscribe(i)
    \/ \E p \in {q \in ProductInputs : q.name = <<"Mug">>} :
            products = <<>>
            /\ CreateProduct(p.name, p.price, p.description, Undefined, p.category,
                             p.hasVariants, p.variants, p.standaloneQuantity)
    \/ \E d \in {e \in DebtInputs : e.type = "payable"} :
            debts = <<>> /\ CreateDebt(d.type, d.counterparty, d.amount, d.description,
                                       now, Undefined, Undefined)
    \/ \E b \in {c \in BillInputs : c.frequency = "once"} :
            bills = <<>> /\ CreateBill(b.name, b.amount, Tomorrow, b.frequency, b.category,
                                       Undefined)
    \/ \E billId \in StoredIds(bills) : ToggleBillPaid(billId, TRUE, TRUE)
    \/ debts # <<>> /\ Tick

SpecSubscribe == Init /\ [][NextSubscribe]_vars

\* The values a call passed to the callback of subscription i, in order.
CallbacksOf(call, i) ==
    LET mine == SelectSeq(call.callbacks, LAMBDA c : c.subscription = i)
    IN  [n \in 1..Len(mine) |-> mine[n].value]

\* The lists in store when the events of a call with a key were dispatched.
FetchedAt(call, key) ==
    LET dispatched == EventsFor(call, key)
    IN  [n \in 1..Len(dispatched) |-> Fetched(key, Parse(dispatched[n].newValue))]

\* C13: subscribing calls the callback once with the manager's list as it is;
\* a listening handler calls its callback once for each event of a step that
\* carries its key, with the list then stored (the last call with the list
\* the step leaves stored), and not for an event with another key; a handler that was removed stays removed and makes no call;
\* calling the returned action removes that handler only, and calling it for a
\* removed handler changes nothing and succeeds.
C13_SubscribeContract ==
    [][/\ \A i \in DOMAIN subscriptions' \ DOMAIN subscriptions :
            /\ subscriptions'[i].listening
            /\ CallbacksOf(lastCall', i)
                 = <<Fetched(subscriptions'[i].key, StoredUnder(subscriptions'[i].key))>>
       /\ \A i \in DOMAIN subscriptions :
            /\ subscriptions'[i].key = subscriptions[i].key
            /\ subscriptions[i].listening
                 => /\ CallbacksOf(lastCall', i) = FetchedAt(lastCall', subscriptions[i].key)
                    /\ CallbacksOf(lastCall', i) # <<>>
                         => Last(CallbacksOf(lastCall', i))
                              = Fetched(subscriptions[i].key,
                                        StoredUnder(subscriptions[i].key)')
            /\ ~subscriptions[i].listening
                 => CallbacksOf(lastCall', i) = <<>> /\ ~subscriptions'[i].listening
            /\ lastCall'.op = "unsubscribe"
                 => /\ lastCall'.outcome = "ok"
                    /\ subscriptions'[i].listening
                         = (subscriptions[i].listening /\ i # lastCall'.id)
       /\ \A n \in DOMAIN lastCall'.callbacks :
            lastCall'.callbacks[n].subscription \in DOMAIN subscriptions']_vars

\* toggleBillPaid dispatched a bills event and a ledger event while a bills
\* handler was listening and a debts handler had been removed: the bills
\* callback ran once.
C13_Witness ==
    /\ lastCall.op = "toggleBillPaid"
    /\ Len(lastCall.events) = 2
    /\ Len(subscriptions) = 2
    /\ subscriptions[1] = [key |-> "debts", listening |-> FALSE]
    /\ subscriptions[2] = [key |-> "app_bills", listening |-> TRUE]
    /\ lastCall.callbacks = <<[subscription |-> 2, value |-> bills]>>
    /\ debts # <<>>

----------------------------------------------------------------------------
(* Properties of createDebt and of the statistics *)

\* C14: createDebt appends one debt, created now, whose status is overdue when
\* its due date is before now and pending otherwise, with no linked
\* transaction and no payment date.
C14_CreateDebtStatus ==
    [][lastCall'.op = "createDebt" =>
        /\ Len(debts') = Len(debts) + 1
        /\ IsPrefix(debts, debts')
        /\ LET debt == Last(debts')
           IN  /\ debt.id = lastCall'.id
               /\ debt.createdAt = now
               /\ debt.status = IF debt.dueDate < now THEN "overdue" ELSE "pending"
               /\ debt.linkedTransactionId = NoId
               /\ debt.paidAt = NoDate]_vars

\* A debt due yesterday was created after one due today.
C14_Witness ==
    /\ lastCall.op = "createDebt"
    /\ Len(debts) = 2
    /\ debts[1].status = "pending" /\ debts[1].dueDate = debts[1].createdAt
    /\ debts[2].status = "overdue" /\ debts[2].dueDate < debts[2].createdAt

\* The statistics as debts of both types are created and paid and fall due.
NextStats ==
    \/ \E d \in DebtInputs, dueDate \in {Yesterday, now} :
            CreateDebt(d.type, d.counterparty, d.amount, d.description, dueDate,
                       Undefined, Undefined)
    \/ \E debtId \in StoredIds(debts) : UpdateDebt(debtId, [status |-> "paid"])
    \/ GetDebtStats
    \/ Tick

SpecStats == Init /\ [][NextStats]_vars

\* The status of a stored debt at this moment: a pending debt whose due date
\* has passed is overdue.
StatusNow(debt) ==
    IF debt.status = "pending" /\ debt.dueDate < now THEN "overdue" ELSE debt.status

\* The stored debts of a type whose status at this moment is in a set.
DebtsNow(types, statuses) ==
    {i \in 1..Len(debts) : debts[i].type \in types /\ StatusNow(debts[i]) \in statuses}

RECURSIVE AmountOf(_)
\* The sum of the amounts of the stored debts at a set of positions.
AmountOf(positions) ==
    IF positions = {} THEN 0
    ELSE LET i == CHOOSE j \in positions : TRUE
         IN  debts[i].amount + AmountOf(positions \ {i})

\* C15: getDebtStats() returns the sums of the amounts of the receivables and
\* of the payables that are pending or overdue at this moment, their
\* difference, the numbers of receivables and of payables overdue at this
\* moment, and the number of debts that are not paid; paid debts count nowhere.
C15_DebtStats ==
    lastCall.op = "getDebtStats" =>
        LET stats == lastCall.result
            unpaid == {"pending", "overdue"}
        IN  /\ stats.totalReceivablesPending = AmountOf(DebtsNow({"receivable"}, unpaid))
            /\ stats.totalPayablesPending = AmountOf(DebtsNow({"payable"}, unpaid))
            /\ stats.netBalance = stats.totalReceivablesPending - stats.totalPayablesPending
            /\ stats.overdueReceivables = Cardinality(DebtsNow({"receivable"}, {"overdue"}))
            /\ stats.overduePayables = Cardinality(DebtsNow({"payable"}, {"overdue"}))
            /\ stats.totalPendingDebts
                 = Cardinality({i \in 1..Len(debts) : StatusNow(debts[i]) # "paid"})

\* The statistics were read over a paid receivable and a payable stored as
\* pending whose due date has passed.
C15_Witness ==
    /\ lastCall.op = "getDebtStats"
    /\ \E i, j \in 1..Len(debts) :
          /\ debts[i].type = "receivable" /\ debts[i].status = "paid"
          /\ debts[j].type = "payable" /\ debts[j].status = "pending"
          /\ debts[j].dueDate < now
    /\ lastCall.result.overduePayables = 1
    /\ lastCall.result.netBalance = -25

----------------------------------------------------------------------------
(* Properties of deleteProduct and of getAllProducts *)

\* C16: deleteProduct(id) succeeds whether or not a product has the
\* identifier, removes that product and leaves the others as they were and in
\* their order, and a second call with the same identifier right after the
\* first leaves the collection as the first left it.
C16_DeleteProductIdempotent ==
    [][lastCall'.op = "deleteProduct" =>
        /\ lastCall'.outcome = "ok"
        /\ products' = SelectSeq(products, LAMBDA q : q.id # lastCall'.id)
        /\ ~HasId(products, lastCall'.id) => products' = products
        /\ (lastCall.op = "deleteProduct" /\ lastCall.id = lastCall'.id)
                => products' = products]_vars

\* A stored product was deleted and another one is left.
C16_Witness ==
    /\ lastCall.op = "deleteProduct"
    /\ lastCall.id # AbsentId
    /\ ~HasId(products, lastCall.id)
    /\ Len(products) = 1

\* The filters passed to getAllProducts: none, a term in another case, a
\* category, an empty category, and the stock flag with each.
ProductFilters ==
    {NoProductFilters,
     [searchTerm |-> <<"ROPA">>, category |-> Undefined, lowStock |-> FALSE],
     [searchTerm |-> <<"BIG">>, category |-> Undefined, lowStock |-> TRUE],
     [searchTerm |-> <<"MUG">>, category |-> <<>>, lowStock |-> FALSE],
     [searchTerm |-> <<>>, category |-> <<"Ropa">>, lowStock |-> TRUE],
     [searchTerm |-> <<>>, category |-> <<"ropa">>, lowStock |-> FALSE]}

\* A stock above the low-stock threshold.
LargeStock == 11

\* The product list as products are created and restocked and time passes.
NextProductList ==
    \/ \E p \in {q \in ProductInputs : q.name # <<"Cap">>} :
            CreateProduct(p.name, p.price, p.description, Undefined, p.category,
                          p.hasVariants, p.variants, p.standaloneQuantity)
    \/ \E productId \in StoredIds(products) :
            UpdateProduct(productId, [standaloneQuantity |-> LargeStock,
                                      category |-> <<"Ropa">>])
    \/ \E productId \in StoredIds(products) :
          \E variantId \in StoredIds(ById(products, productId).variants) :
                UpdateVariantQuantity(productId, variantId, LargeStock)
    \/ \E filters \in ProductFilters : GetAllProducts(filters)
    \/ Tick

SpecProductList == Init /\ [][NextProductList]_vars

\* The product passes the filters that are set: a non-empty search term, a
\* non-empty category, the stock flag.
PassesFilters(product, filters) ==
    /\ Truthy(filters.searchTerm) =>
          \E text \in {product.name, product.description, product.category} :
              /\ text # Undefined
              /\ Includes(ToLowerCase(text), ToLowerCase(filters.searchTerm))
    /\ Truthy(filters.category) => product.category = filters.category
    /\ filters.lowStock => product.totalQuantity <= 10

\* C17: getAllProducts(filters) returns each stored product that passes every
\* filter that is set (a search term and a category are set when they are not
\* empty, the stock flag when it is true) once and as it is stored, and no
\* other record, the later updatedAt first, and leaves the store as it was.
C17_ProductListFiltered ==
    [][lastCall'.op = "getAllProducts" =>
        LET filters == lastCall'.args
            list == lastCall'.result
        IN  /\ UNCHANGED <<products, transactions, debts, bills>>
            /\ lastCall'.events = NoEvents
            /\ StoredIds(list)
                 = {products[i].id :
                       i \in {k \in 1..Len(products) : PassesFilters(products[k], filters)}}
            /\ \A i \in 1..Len(list) : list[i] = ById(products, list[i].id)
            /\ \A i, j \in 1..Len(list) : i # j => list[i].id # list[j].id
            /\ \A i, j \in 1..Len(list) :
                  i < j => list[i].updatedAt >= list[j].updatedAt]_vars

\* The list was read with a category and the stock flag over two products of
\* the category, one of them above the threshold and updated last.
C17_Witness ==
    /\ lastCall.op = "getAllProducts"
    /\ lastCall.args.category = <<"Ropa">>
    /\ lastCall.args.lowStock
    /\ Len(products) = 2
    /\ products[1].category = <<"Ropa">> /\ products[1].totalQuantity <= 10
    /\ products[2].category = <<"Ropa">> /\ products[2].totalQuantity > 10
    /\ products[2].updatedAt > products[1].updatedAt
    /\ Len(lastCall.result) = 1

----------------------------------------------------------------------------
(* Calls issued without awaiting the one before *)

\* The Debt Manager in one view that does not await: a call of markAsPaid
\* runs up to its await, the view's next calls run before the continuation.
NextAsync ==
    \/ \E d \in {e \in DebtInputs : e.type = "receivable"} :
            CreateDebt(d.type, d.counterparty, d.amount, d.description, Tomorrow,
                       Undefined, Undefined)
    \/ \E debtId \in StoredIds(debts) : UpdateDebt(debtId, [notes |-> <<"called">>])
    \/ \E debtId \in StoredIds(debts) : DeleteDebt(debtId)
    \/ \E debtId \in StoredIds(debts) : Len(tasks) < MaxTasks /\ MarkAsPaid(debtId, TRUE)
    \/ MarkAsPaidResume

SpecAsync == Init /\ [][NextAsync]_vars

\* This step is the debt write of a call of markAsPaid.
MarkAsPaidWrites == lastCall'.op = "markAsPaid" /\ lastCall'.outcome = "ok"

\* C18: the debt write of markAsPaid writes the array as it is stored now with
\* the one debt paid: the array the call read is the one in store, and every
\* other debt stays as the calls made in the meantime left it.
C18_CallsDoNotOverlap ==
    [][MarkAsPaidWrites =>
        /\ Head(tasks).debts = debts
        /\ StoredIds(debts') = StoredIds(debts)
        /\ \A id \in StoredIds(debts) \ {lastCall'.id} :
              ById(debts', id) = ById(debts, id)]_vars

\* markAsPaid(1) was followed by createDebt before its continuation ran: the
\* debt createDebt returned as 3 is not stored, and no debt was deleted.
C18_Witness ==
    /\ lastCall.op = "markAsPaid" /\ lastCall.outcome = "ok" /\ lastCall.id = 1
    /\ nextId = 4
    /\ Len(transactions) = 1
    /\ StoredIds(debts) = {1}
    /\ lastCall.events = SaveDebtsEvents(debts)

\* The transactions created for a debt by calls of markAsPaid: the one each
\* waiting call created and the one the stored debt is linked to.
SettlementsOf(id) ==
    {tasks[i].transactionId : i \in {k \in DOMAIN tasks : tasks[k].id = id}}
    \cup (IF HasId(debts, id) /\ ById(debts, id).linkedTransactionId # NoId
          THEN {ById(debts, id).linkedTransactionId} ELSE {})

\* C19: at every moment at most one transaction has been created for a debt by
\* calls of markAsPaid, and a call of markAsPaid ends in success only on a
\* debt that is not stored as paid.
C19_OneSettlementPerDebt ==
    [][/\ \A id \in Ids : Cardinality(SettlementsOf(id))' <= 1
       /\ MarkAsPaidWrites => ById(debts, lastCall'.id).status # "paid"]_vars

\* markAsPaid(1) was called twice before either continuation ran: the ledger
\* holds two transactions for debt 1 and both calls are waiting to succeed.
C19_Witness ==
    /\ Len(tasks) = 2
    /\ tasks[1].id = 1 /\ tasks[2].id = 1
    /\ Len(transactions) = 2
    /\ transactions[1].description = transactions[2].description
    /\ transactions[1].id # transactions[2].id

----------------------------------------------------------------------------
(* Independent views on one store *)

\* Two views create and update products and add transactions; the steps of
\* their operations interleave.
NextViews ==
    \/ \E v \in Views : ViewGetsProducts(v)
    \/ \E v \in Views : ViewGetsTransactions(v)
    \/ \E v \in Views : \E p \in {q \in ProductInputs : q.name = <<"Mug">>} :
            ViewCreatesProduct(v, p.name, p.price, p.description, Undefined, p.category,
                               p.hasVariants, p.variants, p.standaloneQuantity)
    \/ \E v \in Views : \E productId \in StoredIds(views[v].read) :
            ViewUpdatesProduct(v, productId, [price |-> 9])
    \/ \E v \in Views, type \in TransactionTypes :
            ViewAddsTransaction(v, type, <<"cash">>, 10)

SpecViews == Init /\ [][NextViews]_vars

\* The view whose operation writes in this step.
Writes(v) == views[v] # NotRunning /\ views'[v] = NotRunning

\* C20: when a view's operation writes, the collection stored is the array
\* that view read with that operation's change and nothing else, whatever the
\* store held before the write, and it is the array the event carries.
C20_LastWriterWins ==
    [][\A v \in Views : Writes(v) =>
        LET read == views[v].read
            stored == IF views[v].key = "inventory_products" THEN products'
                      ELSE transactions'
        IN  /\ lastCall'.op \in {"createProduct", "addTransaction"}
                  => /\ Len(stored) = Len(read) + 1
                     /\ IsPrefix(read, stored)
                     /\ Last(stored).id = lastCall'.id
            /\ lastCall'.op = "updateProduct"
                  => /\ Len(stored) = Len(read)
                     /\ \A i \in 1..Len(read) :
                           read[i].id # lastCall'.id => stored[i] = read[i]
            /\ Last(lastCall'.events) = StorageEvent(views[v].key, Stringify(stored))]_vars

\* Two products were created and none was ever deleted, both views had read
\* the store when it held the first, one view created the second and then the
\* other view's updateProduct wrote: the store holds the first product only.
C20_Witness ==
    /\ lastCall.op = "updateProduct"
    /\ nextId = 3
    /\ StoredIds(products) = {1}
    /\ products[1].price = 9
    /\ \A v \in Views : views[v] = NotRunning

----------------------------------------------------------------------------
(* A sale that fails *)

\* A catalog is filled, the sale form is opened without onClose, one unit of
\* each chosen product is put in the sale, and products and variants are
\* removed from the store while the form is open.
NextSaleFailure ==
    \/ \E p \in {q \in ProductInputs : q.name \in {<<"Mug">>, <<"Sock">>}} :
            ~form.open
            /\ CreateProduct(p.name, p.price, p.description, Undefined, p.category,
                             p.hasVariants, p.variants, p.standaloneQuantity)
    \/ \E productId \in StoredIds(products) : form.open /\ DeleteProduct(productId)
    \/ \E productId \in StoredIds(products) :
            form.open /\ UpdateProduct(productId, [variants |-> <<>>])
    \/ OpenForm
    \/ \E productId \in Ids :
            ~InSale(form.productQuantities, productId) /\ Increment(productId)
    \/ \E productId \in Ids, variantId \in Ids : UpdateProductVariant(productId, variantId)
    \/ HandleSubmit(FALSE)

SpecSaleFailure == Init /\ [][NextSaleFailure]_vars

\* The store holds what the line sells: the product, and the variant when the
\* line has one.
TargetStored(line) ==
    /\ HasId(products, line.productId)
    /\ line.selectedVariantId # NoId
          => HasId(ById(products, line.productId).variants, line.selectedVariantId)

\* The first line of the sale whose target the store does not hold, or one
\* past the last line.
FirstMissing(lines) ==
    IF \A k \in 1..Len(lines) : TargetStored(lines[k]) THEN Len(lines) + 1
    ELSE CHOOSE k \in 1..Len(lines) :
            /\ ~TargetStored(lines[k])
            /\ \A n \in 1..(k - 1) : TargetStored(lines[n])

\* The stock the form shows for the target of a line.
ShownStock(line) ==
    IF line.selectedVariantId # NoId
    THEN ById(ById(form.products, line.productId).variants, line.selectedVariantId).quantity
    ELSE ById(form.products, line.productId).totalQuantity

\* The stock the store will hold for the target of a line.
StockAfter(line) ==
    IF line.selectedVariantId # NoId
    THEN ById(ById(products', line.productId).variants, line.selectedVariantId).quantity
    ELSE ById(products', line.productId).totalQuantity

\* C21: a sale fails with NotFound exactly when the store lacks the product or
\* the variant of one of its lines; then the lines before the first such line
\* have written their stock (what the form showed less what was sold), the
\* products of that line and of the later ones are as they were, the ledger
\* is as it was and no ledger event is dispatched.
C21_SaleNotRolledBack ==
    [][lastCall'.op = "handleSubmit" =>
        LET lines == lastCall'.args
            k == FirstMissing(lines)
        IN  /\ (lastCall'.outcome = "NotFound") = (k <= Len(lines))
            /\ lastCall'.outcome = "NotFound" =>
                  /\ \A n \in 1..(k - 1) :
                        StockAfter(lines[n]) = Max0(ShownStock(lines[n]) - lines[n].quantity)
                  /\ \A n \in k..Len(lines) :
                        /\ HasId(products', lines[n].productId)
                             = HasId(products, lines[n].productId)
                        /\ HasId(products, lines[n].productId)
                             => ById(products', lines[n].productId)
                                  = ById(products, lines[n].productId)
                  /\ transactions' = transactions
                  /\ EventsFor(lastCall', "cashier_transactions") = <<>>
                  /\ Len(EventsFor(lastCall', "inventory_products")) = k - 1]_vars

\* A sale of two lines failed on its second line: the first product is stored
\* with one unit less than when it was created, the second product is gone
\* and the ledger is empty.
C21_Witness ==
    /\ lastCall.op = "handleSubmit"
    /\ lastCall.outcome = "NotFound"
    /\ Len(lastCall.args) = 2
    /\ HasId(products, lastCall.args[1].productId)
    /\ ById(products, lastCall.args[1].productId).totalQuantity = 1
    /\ ~HasId(products, lastCall.args[2].productId)
    /\ transactions = <<>>

----------------------------------------------------------------------------
(* The two writes of toggleBillPaid *)

\* Bills are created, subscribers listen for the bills' changes, and bills
\* are toggled with and without a payment, the ledger write failing or not.
NextBillPayment ==
    \/ \E b \in BillInputs :
            CreateBill(b.name, b.amount, Tomorrow, b.frequency, b.category, Undefined)
    \/ SubscribeToBills
    \/ \E i \in DOMAIN subscriptions : Unsubscribe(i)
    \/ \E billId \in Ids, createTransaction \in BOOLEAN, storageOk \in BOOLEAN :
            ToggleBillPaid(billId, createTransaction, storageOk)

SpecBillPayment == Init /\ [][NextBillPayment]_vars

\* The call toggles a stored unpaid bill and asks for the payment.
PaysBill(call) ==
    /\ call.op = "toggleBillPaid"
    /\ call.args = TRUE
    /\ HasId(bills, call.id)
    /\ ~ById(bills, call.id).isPaid

\* The subscriptions whose handler listens for the bills' changes.
BillListeners ==
    {i \in DOMAIN subscriptions : subscriptions[i].listening /\ subscriptions[i].key = "app_bills"}

\* C22: when toggleBillPaid marks a bill as paid and records the payment, the
\* bill is stored as paid and the app_bills event is dispatched first: every
\* bills subscriber is called back with the paid bill before the ledger's
\* event, which carries the ledger with the payment appended; when the ledger
\* write fails the bill stays stored as paid, the app_bills event is the only
\* one dispatched, and the ledger is as it was.
C22_BillWrittenBeforeLedger ==
    [][PaysBill(lastCall') =>
        LET call == lastCall'
        IN  /\ call.outcome \in {"ok", "StorageError"}
            /\ ById(bills', call.id).isPaid
            /\ Len(call.events) >= 1
            /\ call.events[1] = StorageEvent("app_bills", Stringify(bills'))
            /\ \A i \in BillListeners :
                    \E n \in DOMAIN call.callbacks :
                        /\ call.callbacks[n].subscription = i
                        /\ ById(call.callbacks[n].value, call.id).isPaid
            /\ call.outcome = "ok" =>
                    /\ Len(call.events) = 2
                    /\ call.events[2].key = "cashier_transactions"
                    /\ Len(Parse(call.events[2].newValue)) = Len(transactions) + 1
                    /\ transactions' = Parse(call.events[2].newValue)
                    /\ Last(transactions').type = "outflow"
                    /\ Last(transactions').amount = ById(bills, call.id).amount
            /\ call.outcome = "StorageError" =>
                    /\ Len(call.events) = 1
                    /\ transactions' = transactions]_vars

C22_Witness ==
    /\ lastCall.op = "toggleBillPaid"
    /\ lastCall.args = TRUE
    /\ lastCall.outcome = "StorageError"
    /\ HasId(bills, lastCall.id)
    /\ ById(bills, lastCall.id).isPaid
    /\ transactions = <<>>
    /\ Len(lastCall.callbacks) = 1
    /\ ById(lastCall.callbacks[1].value, lastCall.id).isPaid

----------------------------------------------------------------------------
(* A new due date for a debt that is overdue *)

\* Debts are created due now or already due, time passes, debts are settled,
\* and debts are given a due date in the future.
NextDebtDue ==
    \/ \E d \in {e \in DebtInputs : e.type = "receivable"}, dueDate \in {Yesterday, now} :
            Idle /\ CreateDebt(d.type, d.counterparty, d.amount, d.description, dueDate,
                               Undefined, Undefined)
    \/ \E debtId \in Ids : Idle /\ UpdateDebt(debtId, [dueDate |-> Tomorrow])
    \/ \E debtId \in StoredIds(debts) : Idle /\ MarkAsPaid(debtId, TRUE)
    \/ MarkAsPaidResume
    \/ Idle /\ GetAllDebts(NoFilters)
    \/ Idle /\ Tick

SpecDebtDue == Init /\ [][NextDebtDue]_vars

\* The status getAllDebts() reports for the stored debt `id` at time `time`.
ReportedStatus(stored, time, id) == ById(GetAllDebtsResult(stored, time, NoFilters), id).status

\* updateDebt(id, {dueDate: d}) with d in the future keeps the stored status
\* of a debt stored as overdue or as paid.
StoredStatusKept ==
    [][\A id \in StoredIds(debts) :
          (UpdateDebt(id, [dueDate |-> Tomorrow]) /\ ById(debts, id).status # "pending")
              => ById(debts', id).status = ById(debts, id).status]_vars

\* C23: after updateDebt(id, {dueDate: d}) with d in the future, a debt that
\* getAllDebts() reported as overdue is still reported as overdue, and a debt
\* reported as paid is still reported as paid.
C23_OverdueStaysOverdue ==
    [][\A id \in StoredIds(debts) :
          (UpdateDebt(id, [dueDate |-> Tomorrow])
           /\ ReportedStatus(debts, now, id) \in {"overdue", "paid"})
              => ReportedStatus(debts', now', id) = ReportedStatus(debts, now, id)]_vars

\* A debt whose due date had passed while it was stored as pending was given
\* a due date in the future: it is stored, and reported, as pending.
C23_Witness ==
    /\ lastCall.op = "updateDebt"
    /\ lastCall.outcome = "ok"
    /\ ById(debts, lastCall.id).dueDate > now
    /\ ById(debts, lastCall.id).createdAt < now
    /\ ReportedStatus(debts, now, lastCall.id) = "pending"

----------------------------------------------------------------------------
(* Stock and the ledger's sales *)

\* The arguments the stored product was created with.
CreatedWith(product) == CHOOSE p \in ProductInputs : Trim(p.name) = product.name

RECURSIVE SoldIn(_, _, _)
\* The total quantity the items record for a product and a variant name.
SoldIn(items, productId, variantName) ==
    IF items = <<>> THEN 0
    ELSE (IF Head(items).productId = productId /\ Head(items).variantName = variantName
          THEN Head(items).quantity ELSE 0)
         + SoldIn(Tail(items), productId, variantName)

RECURSIVE Sold(_, _, _)
\* The same over the items of the ledger's transactions.
Sold(ledger, productId, variantName) ==
    IF ledger = <<>> THEN 0
    ELSE SoldIn(Head(ledger).items, productId, variantName)
         + Sold(Tail(ledger), productId, variantName)

\* C24: for every variant of a product with variants and for every product
\* without variants, the quantity it was created with minus the quantity now
\* stored equals the total quantity the items of the ledger's sales record
\* for it.
C24_StockConserved ==
    \A i \in 1..Len(products) :
        LET product == products[i]
        IN  IF product.hasVariants /\ Len(product.variants) > 0
            THEN \A j \in 1..Len(product.variants) :
                    CreatedWith(product).variants[j].quantity - product.variants[j].quantity
                        = Sold(transactions, product.id, product.variants[j].name)
            ELSE CreatedWith(product).standaloneQuantity - product.totalQuantity
                    = Sold(transactions, product.id, Undefined)

\* The ledger holds two sales of one unit of a product without variants, and
\* the store holds one unit less than the product was created with.
C24_Witness ==
    /\ Len(transactions) = 2
    /\ \E i \in 1..Len(products) :
          /\ ~products[i].hasVariants
          /\ Sold(transactions, products[i].id, Undefined) = 2
          /\ CreatedWith(products[i]).standaloneQuantity - products[i].totalQuantity = 1

----------------------------------------------------------------------------
(* Stock never negative *)

\* No stored quantity is negative.
NonNegative(stored) ==
    \A i \in 1..Len(stored) :
        /\ stored[i].totalQuantity >= 0
        /\ \A j \in 1..Len(stored[i].variants) : stored[i].variants[j].quantity >= 0

\* Every line of every sale submitted has a quantity of at most the stock its
\* form shows for its target.
SalesWithinShownStock ==
    [][lastCall'.op = "handleSubmit" =>
        \A k \in 1..Len(lastCall'.args) :
            lastCall'.args[k].quantity <= ShownStock(lastCall'.args[k])]_vars

\* C25: with products created with non-negative quantities and sales whose
\* lines are within the stock their form shows, every variant quantity and
\* every product totalQuantity in the store is at least zero.
C25_StockNonNegative == NonNegative(products)

\* A form that shows two units has sold two units twice: the store holds zero.
C25_Witness ==
    /\ lastCall.op = "handleSubmit"
    /\ lastCall.outcome = "ok"
    /\ Len(transactions) = 2
    /\ transactions[1].items[1].quantity = 2
    /\ transactions[2].items[1].quantity = 2
    /\ transactions[1].items[1].productId = transactions[2].items[1].productId
    /\ ById(products, transactions[1].items[1].productId).totalQuantity = 0

----------------------------------------------------------------------------
(* The fields an update leaves alone *)

\* The updates objects a caller passes to change one field of a product.
FieldUpdates ==
    {[price |-> 6], [standaloneQuantity |-> 1], [category |-> <<"Hogar", SP>>]}

\* Products with a description or a category are created and edited one
\* field at a time, and sold through the form.
NextCatalogEdit ==
    \/ \E p \in {q \in ProductInputs : q.name \in {<<"Mug">>, <<"Shirt", SP>>}} :
            ~form.open
            /\ CreateProduct(p.name, p.price, p.description, Undefined, p.category,
                             p.hasVariants, p.variants, p.standaloneQuantity)
    \/ \E productId \in IdsOf(products), updates \in FieldUpdates :
            ~form.open /\ UpdateProduct(productId, updates)
    \/ OpenForm
    \/ \E productId \in Ids :
            ~InSale(form.productQuantities, productId) /\ Increment(productId)
    \/ HandleSubmit(TRUE)

SpecCatalogEdit == Init /\ [][NextCatalogEdit]_vars

\* The fields of a product that updateProduct writes only when they are in
\* its updates.
ProductFields == {"name", "description", "image", "price", "category", "id", "createdAt"}

\* Product `id` keeps the fields of ProductFields that are not in `updated`,
\* and every other product is unchanged.
OtherFieldsKept(before, after, id, updated) ==
    /\ Len(after) = Len(before)
    /\ \A i \in 1..Len(before) :
          IF before[i].id = id
          THEN \A f \in ProductFields \ updated : after[i][f] = before[i][f]
          ELSE after[i] = before[i]

\* C26: updateProduct(id, updates) leaves name, description, image, price,
\* category, id and createdAt of the product as stored unless they are in
\* updates, and leaves every other product unchanged; the sale of one
\* product without variants leaves its description and its category as
\* they were.
C26_UpdateKeepsOtherFields ==
    [][/\ (lastCall'.op = "updateProduct" /\ lastCall'.outcome = "ok")
            => OtherFieldsKept(products, products', lastCall'.id, DOMAIN lastCall'.args)
       /\ (lastCall'.op = "handleSubmit" /\ lastCall'.outcome = "ok"
              /\ Len(lastCall'.args) = 1 /\ lastCall'.args[1].selectedVariantId = NoId)
            => OtherFieldsKept(products, products', lastCall'.args[1].productId,
                               {"standaloneQuantity"})]_vars

\* The first sale is of one Mug, created with a description and never
\* edited: the Mug is stored without a description.
C26_Witness ==
    /\ lastCall.op = "handleSubmit"
    /\ lastCall.outcome = "ok"
    /\ Len(lastCall.args) = 1
    /\ lastCall.args[1].selectedVariantId = NoId
    /\ transactions[1].items[1].productName = <<"Mug">>
    /\ transactions[1].amount = 5
    /\ ById(products, lastCall.args[1].productId).description = Undefined

----------------------------------------------------------------------------
(* The fields updateDebt and updateBill leave alone *)

\* The updates objects a caller passes to change the amount or the due date
\* of a debt.
DebtEdits == {[amount |-> 30], [dueDate |-> Tomorrow]}

\* Debts and bills with a category and notes are created and edited.
NextRecordEdit ==
    \/ \E d \in {e \in DebtInputs : e.type = "payable"} :
            CreateDebt(d.type, d.counterparty, d.amount, d.description, Tomorrow,
                       <<"Casa">>, <<"call">>)
    \/ \E debtId \in IdsOf(debts), updates \in DebtEdits : UpdateDebt(debtId, updates)
    \/ \E b \in BillInputs :
            CreateBill(b.name, b.amount, Tomorrow, b.frequency, b.category, <<"auto">>)
    \/ \E billId \in IdsOf(bills), updates \in BillUpdates : UpdateBill(billId, updates)

SpecRecordEdit == Init /\ [][NextRecordEdit]_vars

\* Record `id` keeps every field that is not in `updated`, and every other
\* record is unchanged.
RecordKept(before, after, id, updated) ==
    /\ Len(after) = Len(before)
    /\ \A i \in 1..Len(before) :
          IF before[i].id = id
          THEN \A f \in DOMAIN before[i] \ updated : after[i][f] = before[i][f]
          ELSE after[i] = before[i]

\* The fields updateDebt may change when called with `updates`.
DebtFieldsOf(updates) ==
    DOMAIN updates \cup (IF "dueDate" \in DOMAIN updates THEN {"status"} ELSE {})

\* C27: updateDebt(id, updates) and updateBill(id, updates) change only the
\* fields present in updates, and the debt's status when dueDate is present:
\* every other field of the record, category, notes, id and createdAt
\* included, keeps its stored value, and every other record is unchanged.
C27_UpdateKeepsAbsentFields ==
    [][/\ \A debtId \in StoredIds(debts), updates \in DebtEdits :
              UpdateDebt(debtId, updates)
                  => RecordKept(debts, debts', debtId, DebtFieldsOf(updates))
       /\ \A billId \in StoredIds(bills), updates \in BillUpdates :
              UpdateBill(billId, updates)
                  => RecordKept(bills, bills', billId, DOMAIN updates)]_vars

\* id and createdAt never change, and the other records are unchanged.
UpdateKeepsIdentity ==
    [][/\ \A debtId \in StoredIds(debts), updates \in DebtEdits :
              UpdateDebt(debtId, updates)
                  => RecordKept(debts, debts', debtId,
                                DOMAIN debts[1] \ {"id", "createdAt"})
       /\ \A billId \in StoredIds(bills), updates \in BillUpdates :
              UpdateBill(billId, updates)
                  => RecordKept(bills, bills', billId,
                                DOMAIN bills[1] \ {"id", "createdAt"})]_vars

\* A bill created with a category and notes had its amount set: it is stored
\* without category and without notes.
C27_Witness ==
    /\ lastCall.op = "updateBill"
    /\ lastCall.outcome = "ok"
    /\ ById(bills, lastCall.id).name = <<"Net">>
    /\ ~ById(bills, lastCall.id).isPaid
    /\ ById(bills, lastCall.id).category = Undefined
    /\ ById(bills, lastCall.id).notes = Undefined

----------------------------------------------------------------------------
(* The settlements a debt is linked to *)

\* Debts are created, settled, reopened and deleted, a call being issued
\* whether or not the settlement before it has returned.
NextSettle ==
    \/ \E d \in DebtInputs :
            CreateDebt(d.type, d.counterparty, d.amount, d.description, Tomorrow,
                       Undefined, Undefined)
    \/ \E debtId \in StoredIds(debts) : UpdateDebt(debtId, [status |-> "pending"])
    \/ \E debtId \in StoredIds(debts) : DeleteDebt(debtId)
    \/ \E debtId \in IdsOf(debts), storageOk \in BOOLEAN :
            Len(tasks) < MaxTasks /\ MarkAsPaid(debtId, storageOk)
    \/ MarkAsPaidResume

SpecSettle == Init /\ [][NextSettle]_vars

\* No two stored debts are linked to the same transaction.
LinksDistinct ==
    \A i, j \in 1..Len(debts) :
        (i # j /\ debts[i].linkedTransactionId # NoId)
            => debts[i].linkedTransactionId # debts[j].linkedTransactionId

====
